---- MODULE Spec2Model ----
(***************************************************************************)
(* A model of the ippsample server: the printer/job queue of job.c and     *)
(* printer.c, the job lookup of serverFindJob, the STATE: message handler  *)
(* and serverTransformJob of transform.c, the connection loop of client.c, *)
(* and of the ipptransform tool with its PCL back-end.                     *)
(***************************************************************************)
EXTENDS Integers, Sequences, FiniteSets, TLC

(***************************************************************************)
(* Bounds of the model.                                                    *)
(***************************************************************************)
MaxJobs == 2
MaxThreads == 2
MaxTicks == 2
StartTime == 1000
NumClients == 2

(***************************************************************************)
(* Program constants.                                                      *)
(***************************************************************************)
CleanAge == 60
\* The clock moves by the janitor's age limit, so that a job is seen exactly
\* CleanAge old and then older.
TickStep == CleanAge
DefaultPriority == 50
FirstJobId == 1
NULL == 0

\* The connection threads that call into the job queue.
Clients == 1..NumClients

VARIABLES
  job,             \* heap of server_job_t objects, by allocation order
  njobs,           \* number of job objects allocated so far
  jobs,            \* printer->jobs (array of job addresses)
  active_jobs,     \* printer->active_jobs
  completed_jobs,  \* printer->completed_jobs
  next_job_id,     \* printer->next_job_id
  processing_job,  \* printer->processing_job (NULL or a job address)
  printer_state,   \* printer->state
  rwlock,          \* printer->rwlock: NULL or the thread holding it for writing
  pc,              \* where each connection thread is
  threads,         \* the serverProcessJob threads spawned so far
  now,             \* time(NULL)
  swept,           \* TRUE when the last call to return was serverCleanJobs
  request,         \* serverFindJob: the job_id argument and the request's attributes
  found,           \* serverFindJob: what the last call returned
  state_reasons,   \* printer->state_reasons, as the set of bits that are set
  lines,           \* the last two STATE: lines processed
  masks,           \* printer->state_reasons before each of them
  cpc,             \* serverProcessClient: where the connection thread is
  first_time,      \* serverProcessClient: first_time
  encrypted,       \* whether the connection has completed a TLS handshake
  inbound,         \* the first byte the client sent, or EOF
  peeked,          \* what recv(MSG_PEEK) returned, one entry per sniff
  reads,           \* for the first requests read, whether each was read over TLS
  http_request,    \* serverProcessHTTP: the request of the call just returned
  http_log,        \* serverProcessHTTP: what that call did, in order
  http_ret,        \* serverProcessHTTP: what that call returned
  waited,          \* httpWait: milliseconds waited so far with nothing to read
  sending,         \* whether the client may still send a request
  x_opts,          \* ipptransform: the options and the document of the run
  x_pc,            \* xform_pdf: where the run is
  x_status,        \* xform_pdf: its return value, the exit status
  x_copy,          \* xform_pdf: copy
  x_page,          \* xform_pdf: page
  x_y,             \* xform_pdf: lines of the current page written so far
  x_blank,         \* xform_pdf: the current page is the added blank back side
  x_line,          \* the pixels of the line last passed to write_line
  ras_copies,      \* ras->copies
  ras_duplex,      \* ras->header.Duplex
  ras_tumble,      \* ras->header.Tumble
  out_blanks,      \* ras->out_blanks
  out,             \* what was written for the current page, in order
  started,         \* whether start_job was called
  starts,          \* number of start_page calls
  impressions,     \* xform_pdf: impressions
  ink,             \* the bytes an inked line of the document dithers to
  band,            \* xform_pdf: ras.band_height, band_starty, band_endy, and
                   \* the line of the band buffer last passed to write_line
  media_sheets,    \* xform_pdf: media_sheets
  KeepFiles,       \* KeepFiles: the job files are kept (-k)
  devices,         \* number of output devices in printer->devices
  tj_pc,           \* serverTransformJob: where the call is
  tj_mode,         \* serverTransformJob: mode
  mystdout,        \* serverTransformJob: mystdout[0], mystdout[1]
  mystderr,        \* serverTransformJob: mystderr[0], mystderr[1]
  fds,             \* the descriptors the call opened that are open in the server
  tj_status,       \* serverTransformJob: the value returned
  tj_line,         \* the last line of the child's stderr that was not a STATE: line
  job_counters,    \* the impressions and sheets completed that the job records
  child,           \* the transform child: "none", "running" or "exited"
  lis_host,        \* serverCreateListeners: host
  addrlist,        \* serverCreateListeners: addrlist, the addresses resolved
  bindable,        \* the addresses a socket can be bound to
  addr,            \* serverCreateListeners: addr, as an index into addrlist
  lis_pc,          \* serverCreateListeners: where the call is
  lis_ret,         \* serverCreateListeners: the value returned
  Listeners,       \* Listeners
  fn_call,         \* serverCreateJobFilename: the arguments of the last call
  fname,           \* serverCreateJobFilename: what the last call wrote to fname
  fn_made,         \* the file name made for each job, by job id
  using            \* the job a request handler got from serverFindJob, or NULL

jobVars == <<job, njobs, jobs, active_jobs, completed_jobs, next_job_id,
             processing_job, printer_state, rwlock, pc, threads, now, swept>>

findVars == <<request, found>>

stateVars == <<state_reasons, lines, masks>>

clientVars == <<cpc, first_time, encrypted, inbound, peeked, reads,
                http_request, http_log, http_ret, waited, sending>>

xformVars == <<x_opts, x_pc, x_status, x_copy, x_page, x_y, x_blank, x_line,
               ras_copies, ras_duplex, ras_tumble, out_blanks, out, started,
               starts,
               impressions, ink, band, media_sheets>>

runVars == <<KeepFiles, devices, tj_pc, tj_mode, mystdout, mystderr, fds,
             tj_status, tj_line, job_counters, child>>

listenVars == <<lis_host, addrlist, bindable, addr, lis_pc, lis_ret, Listeners>>

filenameVars == <<fn_call, fname, fn_made>>

moreVars == <<listenVars, filenameVars, using>>

nonJobVars == <<findVars, stateVars, clientVars, xformVars, runVars, moreVars>>

vars == <<jobVars, nonJobVars>>

JobAddrs == 1..MaxJobs

NoJob == [id |-> 0, priority |-> 0, state |-> "none", completed |-> 0,
          format |-> "", freed |-> FALSE, fetchable |-> FALSE,
          event |-> "none", filename |-> ""]

Range(s) == {s[i] : i \in 1..Len(s)}

\* The job-priority values a request may carry; 0 stands for no attribute.
RequestPriorities == {0, 50, 80}
RequestOps == {"Create-Job", "Print-Job"}

(***************************************************************************)
(* printer.c: the compare functions of the three job arrays.               *)
(***************************************************************************)
compare_active_jobs_by_id(a, b) == b.id - a.id

compare_active_jobs(a, b) ==
  IF b.priority - a.priority # 0 THEN b.priority - a.priority
                                 ELSE b.id - a.id

compare_completed_jobs(a, b) ==
  IF a.completed - b.completed # 0 THEN a.completed - b.completed
                                   ELSE b.id - a.id

compare_jobs(a, b) == b.id - a.id

\* The compare function each array was created with (cupsArrayNew).
ArrayCompare(array, a, b) ==
  CASE array = "jobs" -> compare_jobs(a, b)
    [] array = "active_jobs" -> compare_active_jobs(a, b)
    [] array = "completed_jobs" -> compare_completed_jobs(a, b)

\* cupsArrayAdd on a sorted array: the element goes after every element that
\* does not compare greater than it.
cupsArrayAdd(array, arr, e, heap) ==
  LET k == Cardinality({i \in 1..Len(arr) :
                          ArrayCompare(array, heap[arr[i]], heap[e]) <= 0})
  IN  SubSeq(arr, 1, k) \o <<e>> \o SubSeq(arr, k + 1, Len(arr))

(***************************************************************************)
(* serverCreatePrinter: the state after construction.                      *)
(***************************************************************************)
InitJobs ==
  /\ job = [a \in JobAddrs |-> NoJob]
  /\ njobs = 0
  /\ jobs = <<>>
  /\ active_jobs = <<>>
  /\ completed_jobs = <<>>
  /\ next_job_id = FirstJobId
  /\ processing_job = NULL
  /\ printer_state = "idle"
  /\ rwlock = NULL
  /\ pc = [c \in Clients |-> "idle"]
  /\ threads = <<>>
  /\ now = StartTime
  /\ swept = FALSE

\* printer->state_reasons = SERVER_PREASON_NONE
InitState ==
  /\ state_reasons = {}
  /\ lines = <<>>
  /\ masks = <<>>

\* EOF: recv() returns 0, no byte is there to peek
EOF == 0 - 1

\* The values of http_state_t that httpReadRequest returns for a request
\* line (the http_states table), HTTP_STATE_WAITING and HTTP_STATE_ERROR.
HTTP_STATE_WAITING == "WAITING"
HTTP_STATE_ERROR == "ERROR"

\* The fields of a request that serverProcessHTTP looks at.
NoHttpRequest ==
  [state |-> HTTP_STATE_WAITING, uri_ok |-> TRUE, path |-> "/",
   update_ok |-> TRUE, version |-> 100, host |-> TRUE, upgrade |-> "none",
   tls_ok |-> TRUE, expect |-> 0, icon_ok |-> TRUE, ipp_type |-> TRUE,
   ipp |-> "DATA", ipp_ret |-> 1]

\* No call of serverProcessHTTP has returned yet.
InitHttp ==
  /\ http_request = NoHttpRequest
  /\ http_log = <<>>
  /\ http_ret = 1
  /\ waited = 0
  /\ sending = TRUE

\* A connection just accepted (serverCreateClient), its thread at the top of
\* serverProcessClient.
InitClient ==
  /\ cpc = "httpWait"
  /\ first_time = TRUE
  /\ encrypted = FALSE
  /\ inbound = EOF
  /\ peeked = <<>>
  /\ reads = <<>>
  /\ InitHttp

\* An option that is or is not given.
Absent(v) == [present |-> FALSE, value |-> v]
Present(v) == [present |-> TRUE, value |-> v]

\* ipptransform run on a one-page document with no option; xform_setup has
\* cleared ras (memset) and nothing is written yet.
NoOptions ==
  [copies |-> Absent(<<>>), pages |-> 1, sides |-> Absent(""),
   sides_default |-> Absent("")]

NoBand == [height |-> 0, starty |-> 0, endy |-> 0, offset |-> 0]

InitRun ==
  /\ x_pc = "xform_setup"
  /\ x_status = 0
  /\ x_copy = 0
  /\ x_page = 0
  /\ x_y = 0
  /\ x_blank = FALSE
  /\ x_line = <<>>
  /\ ras_copies = 0
  /\ ras_duplex = FALSE
  /\ ras_tumble = 0
  /\ out_blanks = 0
  /\ out = <<>>
  /\ started = FALSE
  /\ starts = 0
  /\ impressions = 0
  /\ band = NoBand
  /\ media_sheets = 0

InitXform ==
  /\ x_opts = NoOptions
  /\ ink = <<0>>
  /\ InitRun

\* The transform modes (server_transform_t).
SERVER_TRANSFORM_COMMAND == "COMMAND"
SERVER_TRANSFORM_TO_CLIENT == "TO_CLIENT"
SERVER_TRANSFORM_TO_FILE == "TO_FILE"

\* No line of a child read yet.
NoLine == [prefix |-> "", name |-> "", value |-> 0]

\* int mystdout[2] = {-1, -1}, mystderr[2] = {-1, -1}; status = 0; the job's
\* counters are 0 (calloc).
InitCall ==
  /\ tj_pc = "start"
  /\ mystdout = <<0 - 1, 0 - 1>>
  /\ mystderr = <<0 - 1, 0 - 1>>
  /\ fds = {}
  /\ tj_status = 0
  /\ tj_line = NoLine
  /\ job_counters = [impressions |-> 0, sheets |-> 0]
  /\ child = "none"

\* The server as started without -k, its printer just created (the devices
\* array is empty), and no transform run yet.
InitServer ==
  /\ KeepFiles = FALSE
  /\ devices = 0
  /\ tj_mode = SERVER_TRANSFORM_COMMAND
  /\ InitCall

\* No Listen address configured yet: Listeners is NULL and
\* serverCreateListeners was not called.
InitListen ==
  /\ lis_host = ""
  /\ addrlist = <<>>
  /\ bindable = {}
  /\ addr = NULL
  /\ lis_pc = "none"
  /\ lis_ret = 0
  /\ Listeners = <<>>

\* The ids of the jobs that get a spool file.
JobIds == {1, 12}

NoFilenameCall == [id |-> 0, job_name |-> <<>>, named |-> FALSE,
                   job_format |-> "", format |-> ""]

\* serverCreateJobFilename was not called yet.
InitFilename ==
  /\ fn_call = NoFilenameCall
  /\ fname = <<>>
  /\ fn_made = [i \in JobIds |-> <<>>]

\* The state of the parts of the server that a run does not exercise.
InitMore == InitListen /\ InitFilename /\ using = NULL

(***************************************************************************)
(* job.c: serverCreateJob.                                                 *)
(***************************************************************************)
NextJobIdStuck(n) == n

\* next_job_id ++
NextJobId(n) == n + 1

InitialJobStateByOperation(op) == IF op = "Create-Job" THEN "held" ELSE "pending"

\* job->state = IPP_JSTATE_HELD, whatever the operation
InitialJobState(op) == "held"

\* job->format stays NULL (calloc) for Create-Job; no document-format-detected
\* or -supplied attribute is modelled, so it is the default otherwise.
JobFormat(op) == IF op # "Create-Job" THEN "application/octet-stream" ELSE ""

JobPriority(p) == IF p # 0 THEN p ELSE DefaultPriority

serverCreateJob(c, op, prio) ==
  /\ pc[c] = "idle"
  /\ rwlock = NULL
  /\ njobs < MaxJobs
  /\ \/ \* calloc fails: return (NULL), the lock still held
        /\ rwlock' = c
        /\ UNCHANGED <<job, njobs, jobs, active_jobs, next_job_id>>
     \/ LET a == njobs + 1
            j == [id |-> next_job_id, priority |-> JobPriority(prio),
                  state |-> InitialJobState(op), completed |-> 0,
                  format |-> JobFormat(op), freed |-> FALSE,
                  fetchable |-> FALSE, event |-> "none", filename |-> ""]
            heap == [job EXCEPT ![a] = j]
        IN  /\ job' = heap
            /\ njobs' = a
            /\ next_job_id' = NextJobId(next_job_id)
            /\ jobs' = cupsArrayAdd("jobs", jobs, a, heap)
            /\ active_jobs' = cupsArrayAdd("active_jobs", active_jobs, a, heap)
            /\ UNCHANGED rwlock
  /\ swept' = FALSE
  /\ UNCHANGED <<completed_jobs, processing_job, printer_state, pc, threads, now,
                 nonJobVars>>

(***************************************************************************)
(* Document submission (Print-Job, or Send-Document closing a Create-Job   *)
(* job): the job leaves held for pending.                                  *)
(***************************************************************************)
SubmitDocument(a) ==
  /\ a \in Range(jobs)
  /\ job[a].state = "held"
  /\ job' = [job EXCEPT ![a].state = "pending", ![a].filename = "spooled"]
  /\ swept' = FALSE
  /\ UNCHANGED <<njobs, jobs, active_jobs, completed_jobs, next_job_id,
                 processing_job, printer_state, rwlock, pc, threads, now, nonJobVars>>

(***************************************************************************)
(* job.c: serverCheckJobs.                                                 *)
(***************************************************************************)
\* if (printer->processing_job) return;   read without the lock
CheckJobsTest(c) ==
  /\ pc[c] = "idle"
  /\ IF processing_job # NULL
       THEN UNCHANGED pc
       ELSE pc' = [pc EXCEPT ![c] = "check"]
  /\ swept' = FALSE
  /\ UNCHANGED <<job, njobs, jobs, active_jobs, completed_jobs, next_job_id,
                 processing_job, printer_state, rwlock, threads, now, nonJobVars>>

\* The objects of active_jobs that were freed: the loop reads their state
\* through a dangling pointer.
FreedActive == {a \in Range(active_jobs) : job[a].freed}

\* job->state == IPP_JSTATE_PENDING as the loop reads it; G is the set of
\* freed objects whose memory reads as pending.
ReadsPending(a, G) == IF job[a].freed THEN a \in G ELSE job[a].state = "pending"

\* The first job of active_jobs that reads as pending, or NULL.
FirstPending(G) ==
  LET idx == {i \in 1..Len(active_jobs) : ReadsPending(active_jobs[i], G)}
  IN  IF idx = {} THEN NULL
      ELSE active_jobs[CHOOSE i \in idx : \A k \in idx : i <= k]

AbortJobSilently(j, t) == [j EXCEPT !.state = "aborted", !.completed = t]

\* job->state = IPP_JSTATE_ABORTED; job->completed = time(NULL);
\* serverAddEvent(printer, job, SERVER_EVENT_JOB_COMPLETED, ...)
AbortJob(j, t) ==
  [j EXCEPT !.state = "aborted", !.completed = t, !.event = "job-completed"]

\* The locked loop: the first pending job gets a serverProcessJob thread, or
\* is aborted when the thread cannot be created.
CheckJobsScan(c) ==
  /\ pc[c] = "check"
  /\ rwlock = NULL
  /\ pc' = [pc EXCEPT ![c] = "idle"]
  /\ \E G \in SUBSET FreedActive :
       LET a == FirstPending(G)
       IN  \/ /\ a = NULL
              /\ UNCHANGED <<job, threads>>
           \/ /\ a # NULL
              /\ Len(threads) < MaxThreads
              /\ threads' = Append(threads, [job |-> a, pc |-> "l389"])
              /\ UNCHANGED job
           \/ /\ a # NULL
              /\ job' = [job EXCEPT ![a] = AbortJob(job[a], now)]
              /\ UNCHANGED threads
  /\ swept' = FALSE
  /\ UNCHANGED <<njobs, jobs, active_jobs, completed_jobs, next_job_id,
                 processing_job, printer_state, rwlock, now, nonJobVars>>

(***************************************************************************)
(* job.c: serverProcessJob, one statement at a time (it takes no lock).    *)
(***************************************************************************)
ProcessJobStep(t) ==
  /\ t \in 1..Len(threads)
  /\ LET a == threads[t].job
         at == threads[t].pc
         goto(l) == threads' = [threads EXCEPT ![t].pc = l]
     IN  \/ /\ at = "l389"
            /\ job' = [job EXCEPT ![a].state = "processing"]
            /\ goto("l390")
            /\ UNCHANGED <<printer_state, processing_job>>
         \/ /\ at = "l390"
            /\ printer_state' = "processing"
            /\ goto("l392")
            /\ UNCHANGED <<job, processing_job>>
         \/ /\ at = "l392"
            /\ processing_job' = a
            /\ job' = [job EXCEPT ![a].event = "job-state-changed"]
            /\ goto("l408")
            /\ UNCHANGED printer_state
         \/ /\ at = "l408"
            /\ job' = [job EXCEPT ![a].state = "stopped", ![a].fetchable = TRUE,
                                   ![a].event = "job-state-changed"]
            /\ goto("done")
            /\ UNCHANGED <<printer_state, processing_job>>
  /\ swept' = FALSE
  /\ UNCHANGED <<njobs, jobs, active_jobs, completed_jobs, next_job_id,
                 rwlock, pc, now, nonJobVars>>

(***************************************************************************)
(* job.c: serverCleanJobs.                                                 *)
(***************************************************************************)
\* job->completed && job->completed < cleantime
CleanTest(j, cleantime) == j.completed # 0 /\ j.completed < cleantime

\* The loop stops at the first job that is not removed.
RECURSIVE CleanLoop(_, _, _)
CleanLoop(arr, heap, cleantime) ==
  IF arr # <<>> /\ CleanTest(heap[Head(arr)], cleantime)
    THEN CleanLoop(Tail(arr), heap, cleantime)
    ELSE arr

\* serverDeleteJob: the file is unlinked unless files are kept, and the
\* object is freed.
serverDeleteJob(j) ==
  [j EXCEPT !.freed = TRUE,
            !.filename = IF @ # "" /\ ~KeepFiles THEN "unlinked" ELSE @]

serverCleanJobs ==
  /\ IF Len(jobs) = 0
       THEN UNCHANGED <<job, jobs>>
       ELSE /\ rwlock = NULL
            /\ jobs' = CleanLoop(jobs, job, now - CleanAge)
            /\ job' = [a \in JobAddrs |->
                        IF a \in Range(jobs) \ Range(jobs')
                          THEN serverDeleteJob(job[a]) ELSE job[a]]
  /\ swept' = TRUE
  /\ UNCHANGED <<njobs, active_jobs, completed_jobs, next_job_id,
                 processing_job, printer_state, rwlock, pc, threads, now, nonJobVars>>

Tick ==
  /\ now < StartTime + MaxTicks * TickStep
  /\ now' = now + TickStep
  /\ swept' = FALSE
  /\ UNCHANGED <<job, njobs, jobs, active_jobs, completed_jobs, next_job_id,
                 processing_job, printer_state, rwlock, pc, threads, nonJobVars>>


(***************************************************************************)
(* The claims about the job queue.                                         *)
(***************************************************************************)
AllJobs == Range(jobs)

ProcessingJobs == {a \in AllJobs : job[a].state = "processing"}

\* C1: at most one job of the printer has state = processing, under every
\* interleaving of serverCheckJobs calls and serverProcessJob threads.
C1_SingleProcessingJob == Cardinality(ProcessingJobs) <= 1

\* C2: every job created gets an id strictly greater than the id of every
\* job created earlier on the printer (objects are numbered in creation
\* order), reaped jobs included.
C2_JobIdsStrictlyIncreasing ==
  \A a, b \in 1..njobs : a < b => job[a].id < job[b].id

\* C2 witness: a second job created after the first one was reaped (the
\* janitor stops at the newest job, so the first one went before).
C2_Witness ==
  /\ njobs = 2
  /\ job[1].freed
  /\ job[2].completed = 0
  /\ job[2].id = job[1].id + 1

\* C3: active-jobs is ordered by priority descending and, among jobs of
\* equal priority, by id ascending.
C3_ActiveJobsOrdered ==
  \A i, k \in 1..Len(active_jobs) :
    i < k =>
      LET x == job[active_jobs[i]]
          y == job[active_jobs[k]]
      IN  \/ x.priority > y.priority
          \/ x.priority = y.priority /\ x.id < y.id

ActiveStates == {"pending", "held", "processing", "stopped"}
TerminalStates == {"completed", "canceled", "aborted"}

\* C4: jobs of active-jobs are pending, held, processing or
\* processing-stopped, jobs of completed-jobs are completed, canceled or
\* aborted, the two collections are disjoint and their union is all-jobs.
C4_JobViews ==
  /\ \A a \in Range(active_jobs) : job[a].state \in ActiveStates
  /\ \A a \in Range(completed_jobs) : job[a].state \in TerminalStates
  /\ Range(active_jobs) \cap Range(completed_jobs) = {}
  /\ Range(active_jobs) \cup Range(completed_jobs) = AllJobs

\* A job of all-jobs whose completion time is set and older than the limit.
Expired(a, t) == job[a].completed # 0 /\ job[a].completed < t - CleanAge

\* C5: immediately after serverCleanJobs returns, all-jobs holds no job
\* whose completion time is set and is earlier than now - 60 s.
C5_NoExpiredJobAfterClean == swept => \A a \in AllJobs : ~Expired(a, now)

Created(c, op, prio) == serverCreateJob(c, op, prio) /\ njobs' = njobs + 1

\* C6 as claimed: serverCreateJob sets the new job's state to held for
\* Create-Job and to pending for Print-Job.
C6_StateByOperation ==
  [][\A c \in Clients, op \in RequestOps, prio \in RequestPriorities :
       Created(c, op, prio) /\ job'[njobs'].format = JobFormat(op)
         => job'[njobs'].state = InitialJobStateByOperation(op)]_vars

\* C6 amended: serverCreateJob sets the new job's state to held for every
\* operation, Print-Job included.
C6_CreatedJobIsHeld ==
  [][\A c \in Clients, op \in RequestOps, prio \in RequestPriorities :
       Created(c, op, prio) => job'[njobs'].state = "held"]_vars

\* C6 witness: a job made by Print-Job (its format is set) that is held.
C6_Witness ==
  \E a \in AllJobs : job[a].format # "" /\ job[a].state = "held"


(***************************************************************************)
(* C strings are sequences of characters; reading past the end gives NUL.  *)
(***************************************************************************)
NUL == "NUL"
CharAt(s, i) == IF i < Len(s) THEN s[i + 1] ELSE NUL

Digits == <<"0", "1", "2", "3", "4", "5", "6", "7", "8", "9">>
IsDigit(ch) == \E d \in 1..10 : Digits[d] = ch
DigitValue(ch) == (CHOOSE d \in 1..10 : Digits[d] = ch) - 1
IsSpace(ch) == ch \in {" ", "\t", "\n"}

\* strncmp(a, b, n) == 0
StrNEqual(a, b, n) ==
  \A i \in 0..(n - 1) :
    /\ CharAt(a, i) = CharAt(b, i)
    /\ (CharAt(a, i) = NUL => \A k \in 0..i : CharAt(a, k) = CharAt(b, k))

RECURSIVE AtoiDigits(_, _)
AtoiDigits(s, acc) ==
  IF s # <<>> /\ IsDigit(Head(s))
    THEN AtoiDigits(Tail(s), 10 * acc + DigitValue(Head(s)))
    ELSE acc

RECURSIVE atoi(_)
\* atoi: white space is skipped, a sign is read, then digits up to the first
\* character that is none.
atoi(s) ==
  IF s # <<>> /\ IsSpace(Head(s)) THEN atoi(Tail(s))
  ELSE IF s # <<>> /\ Head(s) = "-" THEN 0 - AtoiDigits(Tail(s), 0)
  ELSE IF s # <<>> /\ Head(s) = "+" THEN AtoiDigits(Tail(s), 0)
  ELSE AtoiDigits(s, 0)

(***************************************************************************)
(* job.c: serverFindJob.                                                   *)
(***************************************************************************)
\* client->printer->uri and its length
PrinterUri == <<"i", "p", "p", ":", "/", "/", "h", "/", "p">>
PrinterUriLen == Len(PrinterUri)

\* A request attribute: absent, or present with a value.
\* found before any call
NotCalled == 0 - 1

\* The job-uri values a request may carry.
RequestUris ==
  { PrinterUri \o <<"/", "1">>,
    PrinterUri \o <<"/", "2">>,
    PrinterUri \o <<"/", "3">>,
    PrinterUri \o <<"/", "1", "x">>,
    PrinterUri \o <<"/", " ", "2">>,
    PrinterUri \o <<"/", "-", "1">>,
    PrinterUri \o <<"/">>,
    PrinterUri,
    PrinterUri \o <<"1">>,
    <<"i", "p", "p", ":", "/", "/", "h", "/", "q", "/", "1">>,
    <<"i", "p", "p">> }

Requests ==
  [job_id : 0..(MaxJobs + 1),
   job_uri : {Present(u) : u \in RequestUris} \cup {Absent(<<>>)},
   job_id_attr : {Present(n) : n \in 0..(MaxJobs + 1)} \cup {Absent(0)}]

NoRequest == [job_id |-> 0, job_uri |-> Absent(<<>>), job_id_attr |-> Absent(0)]

\* What an uninitialized key.id may hold.
StackGarbage == (0 - 1)..(MaxJobs + 1)

ReturnsNull == {[id |-> NULL, returned |-> TRUE]}

\* key.id as the if-chain leaves it: a set of values, since key.id is read
\* uninitialized when no branch assigns it; ReturnsNull for the early return.
FindKey(req) ==
  IF req.job_id > 0 THEN {[id |-> req.job_id]}
  ELSE IF req.job_uri.present THEN
    LET uri == req.job_uri.value
    IN  IF /\ StrNEqual(uri, PrinterUri, PrinterUriLen)
           /\ CharAt(uri, PrinterUriLen) = "/"
          THEN {[id |-> atoi(SubSeq(uri, PrinterUriLen + 2, Len(uri)))]}
          ELSE ReturnsNull
  ELSE IF req.job_id_attr.present THEN {[id |-> req.job_id_attr.value]}
  ELSE {[id |-> g] : g \in StackGarbage}

\* cupsArrayFind(printer->jobs, &key) with compare_jobs
cupsArrayFind(arr, heap, key) ==
  IF \E i \in 1..Len(arr) : compare_jobs(key, heap[arr[i]]) = 0
    THEN arr[CHOOSE i \in 1..Len(arr) : compare_jobs(key, heap[arr[i]]) = 0]
    ELSE NULL

serverFindJob(req) ==
  /\ \E k \in FindKey(req) :
       IF k \in ReturnsNull
         THEN found' = NULL
         ELSE /\ rwlock = NULL
              /\ found' = cupsArrayFind(jobs, job, k)
  /\ request' = req
  /\ UNCHANGED <<jobVars, stateVars, clientVars, xformVars, runVars, moreVars>>

\* The queues serverFindJob is tried on: n jobs created, the k newest of
\* them aborted and reaped by the janitor.
InitFind ==
  \E n \in 0..MaxJobs, k \in 0..MaxJobs :
    /\ k <= n
    /\ job = [a \in JobAddrs |->
               IF a <= n
                 THEN [id |-> FirstJobId + a - 1, priority |-> DefaultPriority,
                       state |-> IF a > n - k THEN "aborted" ELSE "held",
                       completed |-> IF a > n - k THEN StartTime ELSE 0,
                       format |-> "", freed |-> a > n - k, fetchable |-> FALSE,
                       event |-> IF a > n - k THEN "job-completed" ELSE "none",
                       filename |-> ""]
                 ELSE NoJob]
    /\ njobs = n
    /\ jobs = [i \in 1..(n - k) |-> n - k + 1 - i]
    /\ active_jobs = [i \in 1..n |-> n + 1 - i]
    /\ completed_jobs = <<>>
    /\ next_job_id = FirstJobId + n
    /\ processing_job = NULL
    /\ printer_state = "idle"
    /\ rwlock = NULL
    /\ pc = [c \in Clients |-> "idle"]
    /\ threads = <<>>
    /\ now = StartTime + MaxTicks * TickStep
    /\ swept = FALSE
    /\ request = NoRequest
    /\ found = NotCalled
    /\ InitState
    /\ InitClient
    /\ InitXform /\ InitServer /\ InitMore

NextFind == \E req \in Requests : serverFindJob(req)

SpecFind == InitFind /\ [][NextFind]_vars

\* A job-uri made of the printer URI, '/' and a number.
WellFormedJobUri(u) ==
  /\ Len(u) > PrinterUriLen + 1
  /\ SubSeq(u, 1, PrinterUriLen) = PrinterUri
  /\ u[PrinterUriLen + 1] = "/"
  /\ \A i \in (PrinterUriLen + 2)..Len(u) : IsDigit(u[i])

JobWithId(n) == \E a \in AllJobs : job[a].id = n

\* The requests the claim lists as matching no job.
MatchesNoJob(req) ==
  \/ req.job_id > 0 /\ ~JobWithId(req.job_id)
  \/ req.job_id = 0 /\ req.job_uri.present
       /\ ~WellFormedJobUri(req.job_uri.value)
  \/ req.job_id = 0 /\ ~req.job_uri.present /\ ~req.job_id_attr.present

\* C7: serverFindJob returns NULL for a positive job_id that no job has, for
\* a job-uri that is not the printer URI followed by '/' and an id, and for
\* job_id = 0 on a request with neither a job-uri nor a job-id attribute.
C7_FindJobNotFound ==
  (found # NotCalled /\ MatchesNoJob(request)) => found = NULL


(***************************************************************************)
(* transform.c: process_state_message.                                     *)
(***************************************************************************)
\* The keyword of each bit of printer-state-reasons, bit 0 first.
server_preasons ==
  << <<"m", "e", "d", "i", "a", "-", "e", "m", "p", "t", "y">>,
     <<"m", "e", "d", "i", "a", "-", "l", "o", "w">>,
     <<"t", "o", "n", "e", "r", "-", "l", "o", "w">>,
     <<"m", "a", "r", "k", "e", "r", "-", "w", "a", "s", "t", "e", "-",
       "f", "u", "l", "l">>,
     <<"c", "o", "v", "e", "r", "-", "o", "p", "e", "n">>,
     <<"p", "a", "u", "s", "e", "d">> >>

ReasonBits == 0..(Len(server_preasons) - 1)

SuffixError == <<"-", "e", "r", "r", "o", "r">>
SuffixReport == <<"-", "r", "e", "p", "o", "r", "t">>
SuffixWarning == <<"-", "w", "a", "r", "n", "i", "n", "g">>

\* strchr / strstr: the position (from 1) of the first occurrence, 0 for NULL
StrChr(s, ch) ==
  IF \E i \in 1..Len(s) : s[i] = ch
    THEN CHOOSE i \in 1..Len(s) : s[i] = ch /\ \A k \in 1..(i - 1) : s[k] # ch
    ELSE 0

Occurs(s, pat, i) == i + Len(pat) - 1 <= Len(s) /\ SubSeq(s, i, i + Len(pat) - 1) = pat

StrStr(s, pat) ==
  IF \E i \in 1..Len(s) : Occurs(s, pat, i)
    THEN CHOOSE i \in 1..Len(s) :
           Occurs(s, pat, i) /\ \A k \in 1..(i - 1) : ~Occurs(s, pat, k)
    ELSE 0

\* for (message += 6; *message; message ++) if not ' ' or '\t' break
RECURSIVE SkipBlanks(_)
SkipBlanks(s) ==
  IF s # <<>> /\ Head(s) \in {" ", "\t"} THEN SkipBlanks(Tail(s)) ELSE s

\* The keyword cut at "-error", else at "-report", else at "-warning".
CutSuffix(kw) ==
  IF StrStr(kw, SuffixError) # 0 THEN SubSeq(kw, 1, StrStr(kw, SuffixError) - 1)
  ELSE IF StrStr(kw, SuffixReport) # 0
    THEN SubSeq(kw, 1, StrStr(kw, SuffixReport) - 1)
  ELSE IF StrStr(kw, SuffixWarning) # 0
    THEN SubSeq(kw, 1, StrStr(kw, SuffixWarning) - 1)
  ELSE kw

\* The bits whose keyword strcmp finds equal.
KeywordBits(kw) == {i \in ReasonBits : server_preasons[i + 1] = kw}

ApplyBitsNeverClears(mask, bits, remove) == mask \cup bits

\* state_reasons &= ~bit  or  state_reasons |= bit
ApplyBits(mask, bits, remove) ==
  IF remove THEN mask \ bits ELSE mask \cup bits

\* The while loop over the comma-separated keywords.
RECURSIVE KeywordLoop(_, _, _)
KeywordLoop(message, mask, remove) ==
  IF message = <<>> THEN mask
  ELSE LET comma == StrChr(message, ",")
           kw == IF comma # 0 THEN SubSeq(message, 1, comma - 1) ELSE message
           m == ApplyBits(mask, KeywordBits(CutSuffix(kw)), remove)
       IN  IF comma # 0
             THEN KeywordLoop(SubSeq(message, comma + 1, Len(message)), m, remove)
             ELSE m

\* The mask the loop starts from: the printer's for '-' and '+', none otherwise.
StartMask(message, mask) ==
  IF CharAt(message, 0) = "-" \/ CharAt(message, 0) = "+" THEN mask ELSE {}

StateReasonsAfter(line, mask) ==
  LET message == SkipBlanks(SubSeq(line, 7, Len(line)))
      remove == CharAt(message, 0) = "-"
      rest == IF CharAt(message, 0) = "-" \/ CharAt(message, 0) = "+"
                THEN Tail(message) ELSE message
  IN  KeywordLoop(rest, StartMask(message, mask), remove)

\* The last two entries of a history.
LastTwo(h) == IF Len(h) > 2 THEN Tail(h) ELSE h

process_state_message(line) ==
  /\ state_reasons' = StateReasonsAfter(line, state_reasons)
  /\ lines' = LastTwo(Append(lines, line))
  /\ masks' = LastTwo(Append(masks, state_reasons))
  /\ UNCHANGED <<jobVars, findVars, clientVars, xformVars, runVars, moreVars>>

\* The lines the transform child may write.
StatePrefix == <<"S", "T", "A", "T", "E", ":">>
Paused == server_preasons[6]
MediaLow == server_preasons[2]
CoverOpen == server_preasons[5]
Unknown == <<"b", "o", "g", "u", "s">>

\* One keyword, as a child may write it.
StateKeywords ==
  { Paused, MediaLow, CoverOpen, Unknown,
    Paused \o SuffixError, MediaLow \o SuffixWarning, CoverOpen \o SuffixReport,
    Paused \o SuffixError \o <<"s">>,
    MediaLow \o SuffixReport \o SuffixError }

StateLists ==
  StateKeywords \cup
  { <<>>,
    Paused \o <<",">> \o MediaLow,
    MediaLow \o SuffixWarning \o <<",">> \o Unknown \o <<",">> \o CoverOpen,
    Paused \o <<",">>,
    <<",">> \o CoverOpen }

StateLines ==
  {StatePrefix \o <<" ">> \o sign \o l : sign \in {<<>>, <<"+">>, <<"-">>},
                                         l \in StateLists}
  \cup {StatePrefix \o <<"+">> \o Paused, StatePrefix \o <<" ", "\t">> \o MediaLow}


(***************************************************************************)
(* The claims about STATE: lines.                                          *)
(***************************************************************************)
EndsWith(s, suf) ==
  Len(s) >= Len(suf) /\ SubSeq(s, Len(s) - Len(suf) + 1, Len(s)) = suf

\* The keyword without its -error, -warning or -report suffix.
WithoutSuffix(kw) ==
  IF EndsWith(kw, SuffixError) THEN SubSeq(kw, 1, Len(kw) - Len(SuffixError))
  ELSE IF EndsWith(kw, SuffixWarning)
    THEN SubSeq(kw, 1, Len(kw) - Len(SuffixWarning))
  ELSE IF EndsWith(kw, SuffixReport)
    THEN SubSeq(kw, 1, Len(kw) - Len(SuffixReport))
  ELSE kw

\* The keywords of a comma-separated list.
RECURSIVE ListedKeywords(_)
ListedKeywords(l) ==
  IF StrChr(l, ",") = 0 THEN {l}
  ELSE {SubSeq(l, 1, StrChr(l, ",") - 1)}
         \cup ListedKeywords(SubSeq(l, StrChr(l, ",") + 1, Len(l)))

\* The bits of the known keywords a list names.
ListedBits(l) ==
  {i \in ReasonBits : \E kw \in ListedKeywords(l) :
                        WithoutSuffix(kw) = server_preasons[i + 1]}

\* The mask the claim gives for a line processed from mask M.
ClaimedMask(line, M) ==
  LET body == SkipBlanks(SubSeq(line, 7, Len(line)))
  IN  IF CharAt(body, 0) = "+" THEN M \cup ListedBits(Tail(body))
      ELSE IF CharAt(body, 0) = "-" THEN M \ ListedBits(Tail(body))
      ELSE ListedBits(body)

\* C8: one STATE: line sets the mask to the listed known keywords (no
\* prefix), adds them ('+') or removes them ('-'), other bits unchanged; a
\* -error, -warning or -report suffix is stripped before lookup and unknown
\* keywords contribute nothing.
C8_StateLineUpdate ==
  lines # <<>> =>
    state_reasons = ClaimedMask(lines[Len(lines)], masks[Len(masks)])

\* The last two lines were 'STATE: +X' and 'STATE: -X' for one keyword X.
AddThenRemove(X) ==
  /\ Len(lines) = 2
  /\ lines[1] = StatePrefix \o <<" ", "+">> \o X
  /\ lines[2] = StatePrefix \o <<" ", "-">> \o X

\* C9 as claimed: for every keyword X and every mask M held before the two
\* lines, 'STATE: +X' then 'STATE: -X' leaves the mask equal to M.
C9_AddRemoveRestoresAnyMask ==
  \A X \in StateKeywords : AddThenRemove(X) => state_reasons = masks[1]

\* C9 amended: the same for every mask M in which the bit of X is clear,
\* the initial empty mask among them.
C9_AddRemoveRestoresMaskWithoutX ==
  \A X \in StateKeywords :
    (AddThenRemove(X) /\ StateReasonsAfter(lines[1], {}) \cap masks[1] = {})
      => state_reasons = masks[1]

\* C9 witness: paused added to and removed from a non-empty mask without it.
C9_Witness ==
  /\ AddThenRemove(Paused)
  /\ masks[1] # {}
  /\ masks[2] # masks[1]
  /\ state_reasons = masks[1]

NextState == \E line \in StateLines : process_state_message(line)

InitStateLines ==
  InitJobs /\ request = NoRequest /\ found = NotCalled /\ InitState /\ InitClient
    /\ InitXform /\ InitServer /\ InitMore

SpecState == InitStateLines /\ [][NextState]_vars


(***************************************************************************)
(* client.c: serverProcessClient.                                          *)
(***************************************************************************)
MaxRequests == 2

\* The build has TLS support (#ifdef HAVE_SSL).
HAVE_SSL == TRUE

\* "DGHOPT" with its terminating NUL, as character codes.
MethodLetters == <<68, 71, 72, 79, 80, 84, 0>>

\* The first bytes tried: NUL, 0x16 (TLS ClientHello), D G H O P T, 'A',
\* 'g', and 0x80 (a negative char).
FirstBytes == {0, 22, 68, 71, 72, 79, 80, 84, 65, 103, 0 - 128}

\* strchr("DGHOPT", c) != NULL: the terminating NUL is part of the string.
StrChrMethodLetters(c) == \E i \in 1..Len(MethodLetters) : MethodLetters[i] = c

NeedsTLSWithoutNulTest(r) == r # EOF /\ ~StrChrMethodLetters(r)

\* recv(...) == 1 && (!buf[0] || !strchr("DGHOPT", buf[0]))
NeedsTLS(r) == r # EOF /\ (r = 0 \/ ~StrChrMethodLetters(r))

(***************************************************************************)
(* client.c: serverProcessHTTP.  The calls it makes are logged in order.   *)
(***************************************************************************)
HTTP_STATUS_CONTINUE == 100
HTTP_STATUS_SWITCHING_PROTOCOLS == 101
HTTP_STATUS_OK == 200
HTTP_STATUS_BAD_REQUEST == 400
HTTP_STATUS_NOT_FOUND == 404
HTTP_STATUS_EXPECTATION_FAILED == 417
HTTP_STATUS_NOT_IMPLEMENTED == 501
HTTP_VERSION_1_1 == 101

\* The most responses one call writes: one for Upgrade, one for Expect and
\* the final one.
MaxResponses == 3

\* The request methods that httpReadRequest knows (http_states).
HttpMethods ==
  {"OPTIONS", "GET", "HEAD", "POST", "PUT", "DELETE", "TRACE", "CONNECT"}

HttpStates ==
  HttpMethods \cup {HTTP_STATE_ERROR, "UNKNOWN_METHOD", "UNKNOWN_VERSION"}

Respond(code) == [call |-> "serverRespondHTTP", arg |-> code]

Call(name) == [call |-> name, arg |-> 0]

Responses(log) ==
  Cardinality({i \in 1..Len(log) : log[i].call = "serverRespondHTTP"})

\* What serverRespondHTTP returns for the next response: 0 when writing it
\* fails; wfail says which response of the call that is (0: none).
RespondReturns(log, wfail) == IF Responses(log) + 1 = wfail THEN 0 ELSE 1

Returned(log, ret, enc) == [log |-> log, ret |-> ret, encrypted |-> enc]

IppReadErrorIgnored(log, enc) == Returned(log, 1, enc)

\* if (ipp_state == IPP_STATE_ERROR): respond 400 and return (0)
IppReadError(log, enc) ==
  Returned(Append(log, Respond(HTTP_STATUS_BAD_REQUEST)), 0, enc)

\* switch (client->operation)
HttpDispatch(req, log, enc, wfail) ==
  LET ok == RespondReturns(log, wfail)
      Final(code) == Returned(Append(log, Respond(code)), ok, enc)
      Page(what) ==
        IF ok = 0 THEN Final(HTTP_STATUS_OK)
        ELSE Returned(log \o <<Respond(HTTP_STATUS_OK), Call(what)>>, 1, enc)
  IN  CASE req.state = "OPTIONS" -> Final(HTTP_STATUS_OK)
        [] req.state = "HEAD" ->
             IF req.path \in {"/icon.png", "/", "/media", "/supplies"}
               THEN Final(HTTP_STATUS_OK)
               ELSE Final(HTTP_STATUS_NOT_FOUND)
        [] req.state = "GET" ->
             IF req.path = "/icon.png"
               THEN IF req.icon_ok THEN Page("httpWrite2")
                                   ELSE Final(HTTP_STATUS_NOT_FOUND)
             ELSE IF req.path = "/" THEN Page("html_printf")
             ELSE Final(HTTP_STATUS_NOT_FOUND)
        [] req.state = "POST" ->
             IF ~req.ipp_type THEN Final(HTTP_STATUS_BAD_REQUEST)
             ELSE IF req.ipp = "ERROR"
               THEN IppReadError(Append(log, Call("ippRead")), enc)
             ELSE Returned(log \o <<Call("ippRead"), Call("serverProcessIPP")>>,
                           req.ipp_ret, enc)
        [] OTHER -> Returned(log, 1, enc)

HttpExpectSkipped(req, log, enc, wfail) == HttpDispatch(req, log, enc, wfail)

\* Handle HTTP Expect...
HttpExpect(req, log, enc, wfail) ==
  IF req.expect # 0 /\ req.state \in {"POST", "PUT"}
    THEN LET code == IF req.expect = HTTP_STATUS_CONTINUE
                       THEN HTTP_STATUS_CONTINUE
                       ELSE HTTP_STATUS_EXPECTATION_FAILED
             l == Append(log, Respond(code))
         IN  IF RespondReturns(log, wfail) = 0 THEN Returned(l, 0, enc)
             ELSE HttpDispatch(req, l, enc, wfail)
    ELSE HttpDispatch(req, log, enc, wfail)

\* Handle HTTP Upgrade...
HttpUpgrade(req, enc, wfail) ==
  IF req.upgrade # "none"
    THEN IF HAVE_SSL /\ req.upgrade = "TLS" /\ ~enc
           THEN LET l == <<Respond(HTTP_STATUS_SWITCHING_PROTOCOLS)>>
                IN  IF RespondReturns(<<>>, wfail) = 0 THEN Returned(l, 0, enc)
                    ELSE IF ~req.tls_ok
                      THEN Returned(Append(l, Call("httpEncryption")), 0, enc)
                    ELSE HttpExpect(req, Append(l, Call("httpEncryption")),
                                    TRUE, wfail)
           ELSE LET l == <<Respond(HTTP_STATUS_NOT_IMPLEMENTED)>>
                IN  IF RespondReturns(<<>>, wfail) = 0 THEN Returned(l, 0, enc)
                    ELSE HttpExpect(req, l, enc, wfail)
    ELSE HttpExpect(req, <<>>, enc, wfail)

MissingHostIgnored(req) == FALSE

\* !httpGetField(HTTP_FIELD_HOST)[0] && httpGetVersion() >= HTTP_VERSION_1_1
MissingHost(req) == ~req.host /\ req.version >= HTTP_VERSION_1_1

\* httpSeparateURI(...) < HTTP_URI_STATUS_OK &&
\* (http_state != HTTP_STATE_OPTIONS || strcmp(uri, "*"))
BadUri(req) == ~req.uri_ok /\ (req.state # "OPTIONS" \/ req.path # "*")

serverProcessHTTP(req, enc, wfail) ==
  LET bad == Returned(<<Respond(HTTP_STATUS_BAD_REQUEST)>>, 0, enc)
  IN  IF req.state = HTTP_STATE_ERROR THEN Returned(<<>>, 0, enc)
      ELSE IF req.state \in {"UNKNOWN_METHOD", "UNKNOWN_VERSION"} THEN bad
      ELSE IF BadUri(req) THEN bad
      ELSE IF ~req.update_ok THEN bad
      ELSE IF MissingHost(req) THEN bad
      ELSE HttpUpgrade(req, enc, wfail)

\* The fields of a request that the call gets to look at; the Host field and
\* the version count for every request whose request line was accepted.
FieldsRead(r) ==
  {"state"} \cup
  IF r.state \notin HttpMethods THEN {}
  ELSE {"uri_ok", "host", "version"} \cup
       (IF r.state \in {"OPTIONS", "GET", "HEAD"} THEN {"path"} ELSE {}) \cup
  IF BadUri(r) THEN {}
  ELSE {"update_ok"} \cup
  IF ~r.update_ok THEN {}
  ELSE IF MissingHost(r) THEN {}
  ELSE {"upgrade"} \cup
       (IF r.upgrade = "TLS" THEN {"tls_ok"} ELSE {}) \cup
       (IF r.state \in {"POST", "PUT"} THEN {"expect"} ELSE {}) \cup
       (IF r.state = "GET" /\ r.path = "/icon.png" THEN {"icon_ok"} ELSE {}) \cup
       (IF r.state = "POST" THEN {"ipp_type"} ELSE {}) \cup
       (IF r.state = "POST" /\ r.ipp_type THEN {"ipp"} ELSE {}) \cup
       (IF r.state = "POST" /\ r.ipp_type /\ r.ipp = "DATA"
          THEN {"ipp_ret"} ELSE {})

\* A request with every field the call never looks at left at its default.
Normalised(r) ==
  [f \in DOMAIN r |-> IF f \in FieldsRead(r) THEN r[f] ELSE NoHttpRequest[f]]

\* The requests tried: every combination of the fields.
HttpRequests ==
  {Normalised(r) :
     r \in {q \in [state : HttpStates, uri_ok : BOOLEAN,
                   path : {"/", "/icon.png", "/media", "/x", "*"},
                   update_ok : BOOLEAN, version : {100, 101}, host : BOOLEAN,
                   upgrade : {"none", "TLS", "other"}, tls_ok : BOOLEAN,
                   expect : {0, HTTP_STATUS_CONTINUE,
                             HTTP_STATUS_EXPECTATION_FAILED},
                   icon_ok : BOOLEAN, ipp_type : BOOLEAN,
                   ipp : {"DATA", "ERROR"}, ipp_ret : {0, 1}] :
              /\ q.path = "*" => q.state = "OPTIONS"
              /\ q.state = "OPTIONS" => q.path \in {"/", "*"}}}

(***************************************************************************)
(* client.c: the request loop of serverProcessClient.                      *)
(***************************************************************************)
IdleTimeout == 30000
WaitStep == 15000

TimedOutNever(w) == FALSE

\* httpWait(client->http, 30000) returns 0
TimedOut(w) == w >= IdleTimeout

\* while (httpWait(client->http, 30000)): something is there to read (a
\* request, or the peer's close), or time passes with nothing to read until
\* the wait times out and the loop ends.  The record of the last call of
\* serverProcessHTTP is kept until the thread waits again.
HttpWait ==
  /\ cpc = "httpWait"
  /\ \/ /\ sending
        /\ ~TimedOut(waited)
        /\ cpc' = IF HAVE_SSL /\ first_time THEN "sniff" ELSE "serverProcessHTTP"
        /\ waited' = 0
     \/ /\ waited < IdleTimeout
        /\ waited' = waited + WaitStep
        /\ UNCHANGED cpc
     \/ /\ TimedOut(waited)
        /\ cpc' = "serverDeleteClient"
        /\ UNCHANGED waited
  /\ http_request' = NoHttpRequest
  /\ http_log' = <<>>
  /\ http_ret' = 1
  /\ UNCHANGED <<first_time, encrypted, inbound, peeked, reads, sending>>
  /\ UNCHANGED <<jobVars, findVars, stateVars, xformVars, runVars, moreVars>>

\* The client sends nothing more and leaves the connection open.
ClientStops ==
  /\ sending
  /\ cpc # "closed"
  /\ sending' = FALSE
  /\ UNCHANGED <<cpc, first_time, encrypted, inbound, peeked, reads,
                 http_request, http_log, http_ret, waited>>
  /\ UNCHANGED <<jobVars, findVars, stateVars, xformVars, runVars, moreVars>>

\* first_time = 0
FirstTimeAfterSniff(b) == FALSE

\* if (first_time): peek one byte and see whether TLS is to be negotiated.
Sniff ==
  /\ cpc = "sniff"
  /\ peeked' = Append(peeked, inbound)
  /\ IF NeedsTLS(inbound)
       THEN /\ cpc' = "httpEncryption"
            /\ UNCHANGED first_time
       ELSE /\ cpc' = "serverProcessHTTP"
            /\ first_time' = FirstTimeAfterSniff(first_time)
  /\ UNCHANGED <<encrypted, inbound, reads, http_request, http_log, http_ret,
                 waited, sending>>
  /\ UNCHANGED <<jobVars, findVars, stateVars, xformVars, runVars, moreVars>>

\* httpEncryption(client->http, HTTP_ENCRYPTION_ALWAYS): the handshake
\* succeeds, or fails and the loop is left.
HttpEncryption ==
  /\ cpc = "httpEncryption"
  /\ \/ /\ encrypted' = TRUE
        /\ first_time' = FirstTimeAfterSniff(first_time)
        /\ cpc' = "serverProcessHTTP"
     \/ /\ cpc' = "serverDeleteClient"
        /\ UNCHANGED <<encrypted, first_time>>
  /\ UNCHANGED <<inbound, peeked, reads, http_request, http_log, http_ret,
                 waited, sending>>
  /\ UNCHANGED <<jobVars, findVars, stateVars, xformVars, runVars, moreVars>>

\* if (!serverProcessHTTP(client)) break;  The request is read over TLS when
\* the connection is encrypted; when the peer closed without sending a byte
\* there is no request line to read.
ServerProcessHTTP ==
  /\ cpc = "serverProcessHTTP"
  /\ reads' = IF Len(reads) < MaxRequests THEN Append(reads, encrypted)
                                          ELSE reads
  /\ \E req \in HttpRequests, wfail \in 0..MaxResponses :
       /\ (inbound = EOF /\ reads = <<>>) => req.state = HTTP_STATE_ERROR
       /\ LET r == serverProcessHTTP(req, encrypted, wfail)
          IN  /\ http_request' = req
              /\ http_log' = r.log
              /\ http_ret' = r.ret
              /\ encrypted' = r.encrypted
              /\ cpc' = IF r.ret = 0 THEN "serverDeleteClient" ELSE "httpWait"
  /\ UNCHANGED <<first_time, inbound, peeked, waited, sending>>
  /\ UNCHANGED <<jobVars, findVars, stateVars, xformVars, runVars, moreVars>>

\* serverDeleteClient: the connection is closed.
ServerDeleteClient ==
  /\ cpc = "serverDeleteClient"
  /\ cpc' = "closed"
  /\ UNCHANGED <<first_time, encrypted, inbound, peeked, reads, http_request,
                 http_log, http_ret, waited, sending>>
  /\ UNCHANGED <<jobVars, findVars, stateVars, xformVars, runVars, moreVars>>

InitClientBytes ==
  /\ cpc = "httpWait"
  /\ first_time = TRUE
  /\ encrypted = FALSE
  /\ inbound \in FirstBytes \cup {EOF}
  /\ peeked = <<>>
  /\ reads = <<>>
  /\ InitHttp

\* The steps of the connection thread.
ThreadStep ==
  \/ HttpWait
  \/ Sniff
  \/ HttpEncryption
  \/ ServerProcessHTTP
  \/ ServerDeleteClient

NextClient ==
  \/ ThreadStep
  \/ ClientStops

InitConnection ==
  InitJobs /\ request = NoRequest /\ found = NotCalled /\ InitState
    /\ InitClientBytes /\ InitXform /\ InitServer /\ InitMore

SpecClient == InitConnection /\ [][NextClient]_vars

PlainLetters == {68, 71, 72, 79, 80, 84}

\* C10: on the first request one byte is peeked; D, G, H, O, P or T means
\* the request is read in plaintext with no TLS handshake, any other byte
\* means a TLS handshake comes before the request is read (a failed one ends
\* the connection with nothing read); later requests are not sniffed.
C10_FirstByteSniff ==
  /\ Len(peeked) <= 1
  /\ reads # <<>> => Len(peeked) = 1
  /\ (peeked # <<>> /\ peeked[1] \in PlainLetters) =>
       /\ cpc # "httpEncryption"
       /\ reads # <<>> => ~reads[1]
  /\ (peeked # <<>> /\ peeked[1] \notin PlainLetters /\ peeked[1] # EOF) =>
       /\ cpc \in {"httpEncryption", "serverDeleteClient", "closed"} \/ encrypted
       /\ \A i \in 1..Len(reads) : reads[i]

\* C10 witness: a connection that began with 0x16 and has had two requests
\* read over TLS after a single sniff.
C10_Witness ==
  /\ peeked = <<22>>
  /\ reads = <<TRUE, TRUE>>

\* The connection thread is scheduled and the library calls it makes return.
SpecClientLive == SpecClient /\ WF_vars(ThreadStep)

\* C11: the wait between requests ends the loop only after 30 seconds with
\* nothing to read, the connection is then closed with no response written,
\* and once the client has stopped sending the connection is eventually
\* closed.
C11_IdleTimeoutCloses ==
  /\ [][(cpc = "httpWait" /\ cpc' = "serverDeleteClient") =>
          (waited >= IdleTimeout /\ http_log' = <<>>)]_vars
  /\ [][(cpc = "serverDeleteClient" \/ cpc = "closed") =>
          /\ cpc' = "serverDeleteClient" \/ cpc' = "closed"
          /\ http_log' = http_log]_vars
  /\ (cpc = "httpWait" /\ waited >= IdleTimeout) ~> (cpc = "closed")
  /\ (~sending) ~> (cpc = "closed")

\* C11 witness: a connection that served a request, then waited 30 seconds
\* and was closed with nothing written.
C11_Witness ==
  /\ cpc = "closed"
  /\ waited >= IdleTimeout
  /\ reads # <<>>
  /\ http_log = <<>>

\* C12: for a POST with Expect: 100-continue, the 100 response is written
\* before the body is read.
C12_ContinueBeforeBody ==
  (http_request.state = "POST" /\ http_request.expect = HTTP_STATUS_CONTINUE) =>
    \A i \in 1..Len(http_log) :
      http_log[i] = Call("ippRead") =>
        \E j \in 1..(i - 1) : http_log[j] = Respond(HTTP_STATUS_CONTINUE)

\* C12 witness: such a POST whose body was read and dispatched.
C12_Witness ==
  /\ http_request.state = "POST"
  /\ http_request.expect = HTTP_STATUS_CONTINUE
  /\ Call("ippRead") \in Range(http_log)
  /\ Call("serverProcessIPP") \in Range(http_log)

\* C13: a request of HTTP/1.1 or higher without a Host field gets a 400 and
\* nothing else is done for it.
C13_MissingHostIs400 ==
  (/\ http_request.state \in HttpMethods
   /\ ~http_request.host
   /\ http_request.version >= HTTP_VERSION_1_1) =>
    /\ http_log = <<Respond(HTTP_STATUS_BAD_REQUEST)>>
    /\ http_ret = 0

\* C13 witness: a POST of HTTP/1.1 without Host, otherwise in order.
C13_Witness ==
  /\ http_request.state = "POST"
  /\ http_request.uri_ok
  /\ http_request.update_ok
  /\ ~http_request.host
  /\ http_request.version = HTTP_VERSION_1_1
  /\ http_log = <<Respond(HTTP_STATUS_BAD_REQUEST)>>

\* C14: a request whose method is not GET, HEAD, OPTIONS or POST gets a 400.
C14_OtherMethodsAre400 ==
  http_request.state \in
      (HttpMethods \ {"GET", "HEAD", "OPTIONS", "POST"}) \cup {"UNKNOWN_METHOD"} =>
    Respond(HTTP_STATUS_BAD_REQUEST) \in Range(http_log)

\* C15: when reading the IPP body of a POST of application/ipp fails, a 400
\* is written, no IPP operation is dispatched and the connection is ended.
C15_IppReadErrorIs400 ==
  (/\ http_request.state = "POST"
   /\ http_request.ipp = "ERROR"
   /\ Call("ippRead") \in Range(http_log)) =>
    /\ http_log[Len(http_log)] = Respond(HTTP_STATUS_BAD_REQUEST)
    /\ Call("serverProcessIPP") \notin Range(http_log)
    /\ http_ret = 0
    /\ cpc \in {"serverDeleteClient", "closed"}

\* C15 witness: a connection closed after such a POST.
C15_Witness ==
  /\ cpc = "closed"
  /\ http_request.state = "POST"
  /\ http_request.ipp_type
  /\ http_request.ipp = "ERROR"
  /\ Call("ippRead") \in Range(http_log)

(***************************************************************************)
(* ipptransform.c: the PCL back-end (pcl_start_page, pcl_write_line,       *)
(* pcl_end_page).  What is written is kept as the sequence of the escape   *)
(* sequences; # stands for a number that is not modelled.                   *)
(***************************************************************************)
Rows == 2
Width == 2
MaxShortRow == 4
MaxPages == 3
MaxCopies == 2

White == 255
MaxRun == 127

\* The pixel lines a page may have, over the printable width.
Lines == [1..Width -> {0, White}]

\* memset(ras.band_buffer, 255, ...)
WhiteLine == [i \in 1..Width |-> White]

IsBlankLineNever(line, n) == FALSE

\* line[0] == 255 && !memcmp(line, line + 1, ras->right - ras->left)
IsBlankLine(line, n) ==
  line[1] = White /\ \A i \in 1..n : line[i] = line[i + 1]

Esc(cmd) == [cmd |-> cmd, n |-> 0, data |-> <<>>]

EscN(cmd, n, data) == [cmd |-> cmd, n |-> n, data |-> data]

DuplexModeByTumble(duplex, tumble) ==
  IF duplex THEN (IF tumble # 0 THEN 2 ELSE 1) ELSE 0

\* int mode = ras->header.Duplex ? 1 + ras->header.Tumble != 0 : 0;
\* + binds tighter than !=, so the value is that of (1 + Tumble) != 0; Tumble
\* is 0 or 1, the sum does not wrap.
DuplexMode(duplex, tumble) ==
  IF duplex THEN (IF 1 + tumble # 0 THEN 1 ELSE 0) ELSE 0

\* pcl_start_page: the media setup on a front side (the page size is the
\* default, Letter), the back side selection otherwise, then graphics mode.
pcl_start_page(duplex, tumble, page) ==
  (IF ~duplex \/ page % 2 = 1
     THEN <<Esc("&l12D&k12H"), Esc("&l0O"), Esc("&l2A"), Esc("&l#E&l0L")>>
          \o (IF duplex
                THEN <<EscN("&l#S", DuplexMode(duplex, tumble), <<>>)>>
                ELSE <<>>)
     ELSE <<Esc("&a2G")>>)
  \o <<Esc("*t#R"), Esc("*r#S"), Esc("*r#T"), Esc("&a0H&a#V"), Esc("*b2M"),
       Esc("*r1A")>>

RepeatHeaderOffByOne(count) == (256 - count) % 256

\* (unsigned char)(257 - count)
RepeatHeader(count) == (257 - count) % 256

\* (unsigned char)(count - 1)
LiteralHeader(count) == (count - 1) % 256

\* while (outptr < (outend - 1) && outptr[0] == outptr[1] && count < 127);
\* p is the index of outptr in the row, from 1.
RECURSIVE RepeatedEnd(_, _, _)
RepeatedEnd(row, p, count) ==
  IF p < Len(row) /\ row[p] = row[p + 1] /\ count < MaxRun
    THEN RepeatedEnd(row, p + 1, count + 1)
    ELSE [p |-> p, count |-> count]

\* while (outptr < (outend - 1) && outptr[0] != outptr[1] && count < 127)
RECURSIVE NonRepeatedEnd(_, _, _)
NonRepeatedEnd(row, p, count) ==
  IF p < Len(row) /\ row[p] # row[p + 1] /\ count < MaxRun
    THEN NonRepeatedEnd(row, p + 1, count + 1)
    ELSE [p |-> p, count |-> count]

\* Apply compression: what is put into comp_buffer from outptr on.
RECURSIVE Compress(_, _)
Compress(row, p) ==
  IF p > Len(row) THEN <<>>
  ELSE IF p + 1 > Len(row) THEN <<0, row[p]>> \o Compress(row, p + 1)
  ELSE IF row[p] = row[p + 1]
    THEN LET e == RepeatedEnd(row, p + 1, 2)
         IN  <<RepeatHeader(e.count), row[e.p]>> \o Compress(row, e.p + 1)
  ELSE LET e == NonRepeatedEnd(row, p + 1, 1)
       IN  <<LiteralHeader(e.count)>> \o SubSeq(row, p, p + e.count - 1)
             \o Compress(row, e.p)

\* pcl_write_line, row being what the line dithers to: out_blanks and the
\* output after the call.
pcl_write_line(blanks, stream, line, row) ==
  IF IsBlankLine(line, Width - 1)
    THEN [out_blanks |-> blanks + 1, out |-> stream]
    ELSE LET comp == Compress(row, 1)
             skip == IF blanks > 0 THEN <<EscN("*b#Y", blanks, <<>>)>> ELSE <<>>
         IN  [out_blanks |-> 0,
              out |-> stream \o skip \o <<EscN("*b#W", Len(comp), comp)>>]

\* pcl_end_page: end graphics, and a form feed unless a back side follows.
pcl_end_page(stream, duplex, page) ==
  stream \o <<Esc("*r0B")>>
         \o (IF ~(duplex /\ page % 2 = 1) THEN <<Esc("FF")>> ELSE <<>>)

(***************************************************************************)
(* ipptransform.c: xform_setup and xform_pdf.                              *)
(***************************************************************************)
MinCopies == 1
MaxCopiesValue == 9999
INT_MAX == 2147483647
Limb == 65536

RECURSIVE AfterSpaces(_)
AfterSpaces(s) == IF s # <<>> /\ IsSpace(Head(s)) THEN AfterSpaces(Tail(s)) ELSE s

\* The digits of a number accumulated as hi * 65536 + lo.
RECURSIVE AtoiLimbs(_, _, _)
AtoiLimbs(s, hi, lo) ==
  IF s # <<>> /\ IsDigit(Head(s))
    THEN LET l == 10 * lo + DigitValue(Head(s))
         IN  AtoiLimbs(Tail(s), 10 * hi + l \div Limb, l % Limb)
    ELSE [hi |-> hi, lo |-> lo]

\* The sign and the magnitude that atoi reads.
AtoiParts(s) ==
  LET t == AfterSpaces(s)
      signed == t # <<>> /\ Head(t) \in {"-", "+"}
  IN  [neg |-> t # <<>> /\ Head(t) = "-",
       mag |-> AtoiLimbs(IF signed THEN Tail(t) ELSE t, 0, 0)]

\* atoi as an int: the number when an int can hold it; otherwise the
\* behaviour is undefined, and a build either keeps the low 32 bits (the
\* cast of strtol's long) or stops at the largest or smallest int.
AtoiOutcomes(s) ==
  LET a == AtoiParts(s)
      sign == IF a.neg THEN 0 - 1 ELSE 1
      w == a.mag.hi % Limb
      low == IF w >= Limb \div 2 THEN (w - Limb) * Limb + a.mag.lo
                                 ELSE w * Limb + a.mag.lo
  IN  IF a.mag.hi < Limb \div 2
        THEN {sign * (a.mag.hi * Limb + a.mag.lo)}
        ELSE {sign * low, IF a.neg THEN 0 - INT_MAX - 1 ELSE INT_MAX}

\* Get the number of copies: what ras->copies becomes, or the failure.
SetupCopies(copies) ==
  IF copies.present
    THEN {IF temp < MinCopies \/ temp > MaxCopiesValue
            THEN [ok |-> FALSE, copies |-> 0]
            ELSE [ok |-> TRUE, copies |-> temp] :
          temp \in AtoiOutcomes(copies.value)}
    ELSE {[ok |-> TRUE, copies |-> 1]}

\* sides, from the page count, the option and PRINTER_SIDES_DEFAULT
SetupSides(opts) ==
  IF opts.pages = 1 THEN "one-sided"
  ELSE IF opts.sides.present THEN opts.sides.value
  ELSE IF opts.sides_default.present THEN opts.sides_default.value
  ELSE "one-sided"

\* header.Duplex as cupsRasterInitPWGHeader sets it from sides
HeaderDuplex(sides) ==
  sides \in {"two-sided-long-edge", "two-sided-short-edge"}

\* header.Tumble as cupsRasterInitPWGHeader sets it from sides
HeaderTumble(sides) == IF sides = "two-sided-short-edge" THEN 1 ELSE 0

\* xform_setup, called first by xform_pdf: it fails on the copies value or
\* on one of the later checks (media, resolution, raster header), and
\* xform_pdf then returns 1.
XformSetup ==
  /\ x_pc = "xform_setup"
  /\ \E c \in SetupCopies(x_opts.copies) :
       \/ /\ ~c.ok
          /\ x_pc' = "returned"
          /\ x_status' = 1
          /\ UNCHANGED <<ras_copies, ras_duplex, ras_tumble>>
       \/ /\ c.ok
          /\ ras_copies' = c.copies
          /\ \/ /\ x_pc' = "returned"
                /\ x_status' = 1
                /\ UNCHANGED <<ras_duplex, ras_tumble>>
             \/ /\ x_pc' = "start_job"
                /\ ras_duplex' = HeaderDuplex(SetupSides(x_opts))
                /\ ras_tumble' = HeaderTumble(SetupSides(x_opts))
                /\ UNCHANGED x_status
  /\ UNCHANGED <<x_opts, x_copy, x_page, x_y, x_blank, x_line, out_blanks, out,
                 started, starts, impressions, ink, band, media_sheets>>
  /\ UNCHANGED <<jobVars, findVars, stateVars, clientVars, runVars, moreVars>>

\* ras.band_height: XFORM_MAX_RASTER / band_size, at least 1 and at most
\* cupsHeight, which is not less than the lines of a page.
BandHeights == 1..(Rows + 1)

\* ras.top and ras.bottom: the first and the last line of a page.
PageTop == 0
PageBottom == Rows - 1

\* band_starty, band_endy and the line of the band buffer that lineptr
\* points into, for line y of a page of the document.
NextBand(b, y) ==
  LET redraw == y >= b.endy
      starty == IF redraw THEN y ELSE b.starty
      endy == IF redraw
                THEN (IF y + b.height > PageBottom THEN PageBottom
                                                   ELSE y + b.height)
                ELSE b.endy
  IN  [height |-> b.height, starty |-> starty, endy |-> endy,
       offset |-> y - starty]

\* (*(ras.start_job))(...), and the two loops are entered
StartJob ==
  /\ x_pc = "start_job"
  /\ started' = TRUE
  /\ x_copy' = 0
  /\ x_page' = 1
  /\ x_pc' = "start_page"
  /\ \E h \in BandHeights : band' = [NoBand EXCEPT !.height = h]
  /\ UNCHANGED <<x_opts, x_status, x_y, x_blank, x_line, ras_copies, ras_duplex,
                 ras_tumble,
                 out_blanks, out, starts, impressions, ink, media_sheets>>
  /\ UNCHANGED <<jobVars, findVars, stateVars, clientVars, runVars, moreVars>>

\* (*(ras.start_page))(&ras, page, cb, ctx); a run is followed when it makes
\* at most MaxCopies copies.
StartPage ==
  /\ x_pc = "start_page"
  /\ ras_copies <= MaxCopies
  /\ out' = pcl_start_page(ras_duplex, ras_tumble, x_page)
  /\ out_blanks' = 0
  /\ x_y' = 0
  /\ starts' = starts + 1
  /\ x_pc' = "write_line"
  /\ band' = [NoBand EXCEPT !.height = band.height]
  /\ UNCHANGED <<x_opts, x_status, x_copy, x_page, x_blank, x_line, ras_copies,
                 ras_duplex, ras_tumble, started, impressions, ink, media_sheets>>
  /\ UNCHANGED <<jobVars, findVars, stateVars, clientVars, runVars, moreVars>>

\* for (y = ras.top; y <= ras.bottom; y ++) on a page of the document,
\* for (y = ras.top; y < ras.bottom; y ++) on the blank back side
LinesOfPage(blank) == IF blank THEN Rows - 1 ELSE Rows

\* (*(ras.write_line))(&ras, y, lineptr, cb, ctx)
WriteLine ==
  /\ x_pc = "write_line"
  /\ x_y < LinesOfPage(x_blank)
  /\ \E line \in (IF x_blank THEN {WhiteLine} ELSE Lines) :
       LET r == pcl_write_line(out_blanks, out, line, ink)
       IN  /\ out_blanks' = r.out_blanks
           /\ out' = r.out
           /\ x_line' = line
  /\ x_y' = x_y + 1
  /\ band' = IF x_blank THEN [band EXCEPT !.offset = 0]
                        ELSE NextBand(band, PageTop + x_y)
  /\ UNCHANGED <<x_opts, x_pc, x_status, x_copy, x_page, x_blank, ras_copies,
                 ras_duplex, ras_tumble, started, starts, impressions, ink,
                 media_sheets>>
  /\ UNCHANGED <<jobVars, findVars, stateVars, clientVars, runVars, moreVars>>

NeedsBlankBackNever(copies, pages, duplex) == FALSE

\* if (ras.copies > 1 && (pages & 1) && ras.header.Duplex)
NeedsBlankBack(copies, pages, duplex) ==
  copies > 1 /\ pages % 2 = 1 /\ duplex

\* (*(ras.end_page))(...); impressions ++; and on to the next page, the blank
\* back side, the next copy or the end of the job.
EndPage ==
  /\ x_pc = "write_line"
  /\ x_y = LinesOfPage(x_blank)
  /\ out' = pcl_end_page(out, ras_duplex, x_page)
  /\ impressions' = impressions + 1
  /\ media_sheets' = IF ~ras_duplex \/ x_page % 2 = 0 THEN media_sheets + 1
                                                      ELSE media_sheets
  /\ IF ~x_blank /\ x_page < x_opts.pages
       THEN /\ x_page' = x_page + 1
            /\ x_pc' = "start_page"
            /\ UNCHANGED <<x_copy, x_blank>>
     ELSE IF ~x_blank /\ NeedsBlankBack(ras_copies, x_opts.pages, ras_duplex)
       THEN /\ x_page' = x_page + 1
            /\ x_blank' = TRUE
            /\ x_pc' = "start_page"
            /\ UNCHANGED x_copy
     ELSE IF x_copy + 1 < ras_copies
       THEN /\ x_copy' = x_copy + 1
            /\ x_page' = 1
            /\ x_blank' = FALSE
            /\ x_pc' = "start_page"
     ELSE /\ x_pc' = "end_job"
          /\ UNCHANGED <<x_copy, x_page, x_blank>>
  /\ UNCHANGED <<x_opts, x_status, x_y, x_line, ras_copies, ras_duplex,
                 ras_tumble,
                 out_blanks, started, starts, ink, band>>
  /\ UNCHANGED <<jobVars, findVars, stateVars, clientVars, runVars, moreVars>>

\* (*(ras.end_job))(...); return (0)
EndJob ==
  /\ x_pc = "end_job"
  /\ x_status' = 0
  /\ x_pc' = "returned"
  /\ UNCHANGED <<x_opts, x_copy, x_page, x_y, x_blank, x_line, ras_copies,
                 ras_duplex, ras_tumble, out_blanks, out, started, starts,
                 impressions, ink, band, media_sheets>>
  /\ UNCHANGED <<jobVars, findVars, stateVars, clientVars, runVars, moreVars>>

NextTransform ==
  \/ XformSetup
  \/ StartJob
  \/ StartPage
  \/ WriteLine
  \/ EndPage
  \/ EndJob

\* The values of the copies option tried.
CopiesOptions ==
  {Absent(<<>>)} \cup
  {Present(v) : v \in {<<"0">>, <<"1">>, <<"2">>, <<"3">>,
                       <<"9", "9", "9", "9">>, <<"1", "0", "0", "0", "0">>,
                       <<"-", "1">>,
                       <<"4", "2", "9", "4", "9", "6", "7", "2", "9", "7">>}}

\* The runs tried: the options, and the page count of the document.
XformOptions ==
  [copies : CopiesOptions, pages : 1..MaxPages,
   sides : {Absent(""), Present("one-sided"), Present("two-sided-long-edge")},
   sides_default : {Absent(""), Present("two-sided-short-edge")}]

InitOptions ==
  /\ x_opts \in XformOptions
  /\ ink = <<0>>
  /\ InitRun

InitTransform ==
  InitJobs /\ request = NoRequest /\ found = NotCalled /\ InitState
    /\ InitClient /\ InitOptions /\ InitServer /\ InitMore

SpecTransform == InitTransform /\ [][NextTransform]_vars

\* The rows of dithered bytes tried: every short row, and long rows made of
\* runs around the longest run the compression emits.
ByteValues == {0, 85, 255}

ShortRows == UNION {[1..n -> ByteValues] : n \in 1..MaxShortRow}

Rep(b, n) == [i \in 1..n |-> b]

Alt(n) == [i \in 1..n |-> IF i % 2 = 1 THEN 0 ELSE 255]

RunLengthsTried == {MaxRun - 1, MaxRun, MaxRun + 1, MaxRun + 2, 2 * MaxRun,
                    2 * MaxRun + 1, 2 * MaxRun + 2}

LongRows ==
  {Rep(0, n) : n \in RunLengthsTried} \cup
  {Alt(n) : n \in RunLengthsTried} \cup
  {<<85>> \o Rep(0, n) : n \in RunLengthsTried} \cup
  {Rep(0, n) \o Alt(m) : n, m \in {MaxRun, MaxRun + 1}} \cup
  {Alt(n) \o Rep(85, m) : n, m \in {MaxRun, MaxRun + 1}}

DitheredRows == ShortRows \cup LongRows

InitRows ==
  /\ x_opts = NoOptions
  /\ ink \in DitheredRows
  /\ InitRun

InitPcl ==
  InitJobs /\ request = NoRequest /\ found = NotCalled /\ InitState
    /\ InitClient /\ InitRows /\ InitServer /\ InitMore

SpecPcl == InitPcl /\ [][NextTransform]_vars

\* The decoder of the receiving printer: a header of 129 or more repeats
\* the next byte 257 - header times, a header of 127 or less copies the next
\* header + 1 bytes; a stream that ends inside a run decodes to no row.
RECURSIVE PackBitsDecode(_)
PackBitsDecode(comp) ==
  IF comp = <<>> THEN <<>>
  ELSE LET h == Head(comp)
       IN  IF h >= 129 /\ Len(comp) >= 2
             THEN Rep(comp[2], 257 - h) \o PackBitsDecode(SubSeq(comp, 3, Len(comp)))
           ELSE IF h <= 127 /\ Len(comp) >= h + 2
             THEN SubSeq(comp, 2, h + 2)
                    \o PackBitsDecode(SubSeq(comp, h + 3, Len(comp)))
           ELSE <<0 - 1>>

\* The number of bytes each run of a compressed row stands for.
RECURSIVE RunSizes(_)
RunSizes(comp) ==
  IF comp = <<>> THEN {}
  ELSE LET h == Head(comp)
       IN  IF h >= 129 /\ Len(comp) >= 2
             THEN {257 - h} \cup RunSizes(SubSeq(comp, 3, Len(comp)))
           ELSE IF h <= 127 /\ Len(comp) >= h + 2
             THEN {h + 1} \cup RunSizes(SubSeq(comp, h + 3, Len(comp)))
           ELSE {0}

RowsWritten == {i \in 1..Len(out) : out[i].cmd = "*b#W"}

\* C16: every row that pcl_write_line transfers decodes, by the PackBits
\* rule (header >= 129: repeat the next byte 257 - header times; header
\* <= 127: copy the next header + 1 bytes), to exactly the dithered row, each
\* run stands for 1 to 128 bytes, and the length announced is the length of
\* the compressed data.
C16_PackBitsRoundTrip ==
  \A i \in RowsWritten :
    /\ PackBitsDecode(out[i].data) = ink
    /\ RunSizes(out[i].data) \subseteq 1..128
    /\ out[i].n = Len(out[i].data)

\* A row with a run longer than the longest run emitted, followed by bytes
\* that do not repeat, has been written.
C16_Witness ==
  /\ RowsWritten # {}
  /\ Len(ink) > 2 * MaxRun
  /\ \E i \in 1..Len(ink) - 1 : ink[i] # ink[i + 1]
  /\ \E i \in 1..Len(ink) - 1 : ink[i] = ink[i + 1]

\* C17: a line whose pixels are all 0xFF makes pcl_write_line write nothing
\* and raise out_blanks by one.
C17_WhiteLineIsCounted ==
  [][(x_y' = x_y + 1 /\ x_line' = WhiteLine)
       => (out' = out /\ out_blanks' = out_blanks + 1)]_vars

\* A white line has been counted after a line that was written.
C17_Witness ==
  /\ x_pc = "write_line"
  /\ x_y = Rows
  /\ x_line = WhiteLine
  /\ out_blanks = 1
  /\ RowsWritten # {}

SkipsWritten == {i \in 1..Len(out) : out[i].cmd = "*b#Y"}

PageEnded == \E i \in 1..Len(out) : out[i].cmd = "*r0B"

\* C18: when a page has ended, no blank row is still pending, and a page of
\* the document with no row written (an all-white page) has exactly one
\* vertical skip, of all the rows of the page, between the page setup and
\* the end of graphics.
C18_TrailingBlanksFlushed ==
  PageEnded =>
    /\ out_blanks = 0
    /\ (~x_blank /\ RowsWritten = {}) =>
         \E i \in SkipsWritten :
           /\ SkipsWritten = {i}
           /\ out[i].n = Rows
           /\ i > Len(pcl_start_page(ras_duplex, ras_tumble, x_page))
           /\ out[i + 1].cmd = "*r0B"

\* The copies option read as a number of any size is from 1 to 9999.
CopiesInRange(s) ==
  LET a == AtoiParts(s)
  IN  ~a.neg /\ a.mag.hi = 0 /\ a.mag.lo >= MinCopies /\ a.mag.lo <= MaxCopiesValue

\* C19: once xform_setup has run, a copies option below 1 or above 9999 has
\* made the command return 1 with no start_job and no page callback made, a
\* value from 1 to 9999 is the copy count, and with no copies option the copy
\* count is 1.
C19_CopiesRange ==
  x_pc # "xform_setup" =>
    IF ~x_opts.copies.present THEN ras_copies = 1
    ELSE IF CopiesInRange(x_opts.copies.value)
      THEN ras_copies = AtoiParts(x_opts.copies.value).mag.lo
    ELSE x_pc = "returned" /\ x_status = 1 /\ ~started /\ starts = 0

\* C20: a finished job that is duplex, of an odd number of pages and of more
\* than one copy has made copies * (pages + 1) impressions, each of them a
\* page started and ended.
C20_DuplexOddCopies ==
  (x_pc = "returned" /\ x_status = 0 /\ ras_duplex /\ x_opts.pages % 2 = 1
     /\ ras_copies > 1)
    => (impressions = ras_copies * (x_opts.pages + 1) /\ starts = impressions)

\* Two duplex copies of a document of three pages have been made.
C20_Witness ==
  /\ x_pc = "returned"
  /\ x_status = 0
  /\ ras_duplex
  /\ x_opts.pages = 3
  /\ ras_copies = 2
  /\ impressions = 8

Init == InitJobs /\ request = NoRequest /\ found = NotCalled /\ InitState
        /\ InitClient /\ InitXform /\ InitServer /\ InitMore

Next ==
  \/ \E c \in Clients, op \in RequestOps, prio \in RequestPriorities :
       serverCreateJob(c, op, prio)
  \/ \E a \in JobAddrs : SubmitDocument(a)
  \/ \E c \in Clients : CheckJobsTest(c)
  \/ \E c \in Clients : CheckJobsScan(c)
  \/ \E t \in 1..MaxThreads : ProcessJobStep(t)
  \/ serverCleanJobs
  \/ Tick

Spec == Init /\ [][Next]_vars

(***************************************************************************)
(* The scheduler as the server runs it: serverCleanJobs has no caller (the *)
(* body of serverRun is disabled), so jobs are created, get their document,*)
(* and are started by serverCheckJobs.                                     *)
(***************************************************************************)
NextSched ==
  \/ \E c \in Clients, op \in RequestOps, prio \in RequestPriorities :
       serverCreateJob(c, op, prio)
  \/ \E a \in JobAddrs : SubmitDocument(a)
  \/ \E c \in Clients : CheckJobsTest(c)
  \/ \E c \in Clients : CheckJobsScan(c)
  \/ \E t \in 1..MaxThreads : ProcessJobStep(t)

SpecSched == Init /\ [][NextSched]_vars

\* serverCheckJobs keeps being called and is not held up, and the threads
\* created run.
SpecSchedLive ==
  /\ SpecSched
  /\ \A c \in Clients : WF_vars(CheckJobsTest(c)) /\ WF_vars(CheckJobsScan(c))
  /\ \A t \in 1..MaxThreads : WF_vars(ProcessJobStep(t))

\* A step that writes one of the printer's mutable fields.
PrinterFieldsWritten ==
  \/ printer_state' # printer_state
  \/ processing_job' # processing_job
  \/ state_reasons' # state_reasons
  \/ jobs' # jobs
  \/ active_jobs' # active_jobs
  \/ completed_jobs' # completed_jobs
  \/ next_job_id' # next_job_id

\* A step made between _cupsRWLockWrite(&printer->rwlock) and the unlock.
WriteLocked ==
  \/ \E c \in Clients, op \in RequestOps, prio \in RequestPriorities :
       serverCreateJob(c, op, prio)
  \/ \E c \in Clients : CheckJobsScan(c)
  \/ serverCleanJobs

\* C21: every step that writes printer state, processing-job,
\* printer-state-reasons, one of the job collections or next-job-id is made
\* by a thread that holds the printer's write lock.
C21_WritesUnderWriteLock == [][PrinterFieldsWritten => WriteLocked]_vars

Running(t) == t \in 1..Len(threads) /\ threads[t].pc # "done"

\* C23: processing-job is non-null only while a processing task is running,
\* and once every processing task has finished and no job is pending or
\* processing the printer is idle again.
C23_ProcessingJobReset ==
  /\ processing_job # NULL =>
       \E t \in 1..Len(threads) : Running(t) /\ threads[t].job = processing_job
  /\ ((\A t \in 1..Len(threads) : ~Running(t))
        /\ \A a \in AllJobs : job[a].state \notin {"pending", "processing"})
       => printer_state = "idle"

\* C24: every pending job eventually leaves pending (it is started, or
\* aborted when its thread cannot be created).
C24_PendingJobIsStarted ==
  \A a \in JobAddrs : (job[a].state = "pending") ~> (job[a].state # "pending")

\* C25: a job is processing-stopped and fetchable only when an output device
\* has registered; with no device, a job whose processing task has finished
\* is completed or aborted.
C25_FetchableOnlyWithDevice ==
  /\ \A a \in AllJobs :
       (job[a].state = "stopped" \/ job[a].fetchable) => devices > 0
  /\ devices = 0 =>
       \A t \in 1..Len(threads) :
         ~Running(t) => job[threads[t].job].state \in {"completed", "aborted"}

\* C26: a call of serverCheckJobs that finds a pending job and creates no
\* thread leaves that job aborted with its completion time set and a
\* job-completed event, changes no other job, and returns with the lock
\* released.
C26_SpawnFailureAborts ==
  [][\A c \in Clients :
       (pc[c] = "check" /\ pc'[c] = "idle" /\ FirstPending({}) # NULL
          /\ threads' = threads)
         => LET a == FirstPending({})
            IN  /\ job'[a].state = "aborted"
                /\ job'[a].completed = now /\ job'[a].completed # 0
                /\ job'[a].event = "job-completed"
                /\ \A b \in JobAddrs \ {a} : job'[b] = job[b]
                /\ rwlock' = NULL]_vars

\* One of two pending jobs was aborted this way and the other one is still
\* pending, no thread having been created.
C26_Witness ==
  /\ threads = <<>>
  /\ \E a, b \in AllJobs :
       /\ job[a].state = "aborted" /\ job[a].event = "job-completed"
       /\ job[b].state = "pending"

\* C27: the job a thread is created for is pending, and no pending job of
\* the printer has a higher priority.
C27_HighestPriorityPendingFirst ==
  [][Len(threads') > Len(threads)
       => LET a == threads'[Len(threads')].job
          IN  /\ job[a].state = "pending"
              /\ \A b \in AllJobs :
                   job[b].state = "pending" => job[b].priority <= job[a].priority]_vars

\* A job of priority 80 was started while an older job of priority 50 waits.
C27_Witness ==
  \E t \in 1..Len(threads), b \in AllJobs :
    /\ threads[t].pc = "l389"
    /\ job[threads[t].job].priority = 80
    /\ job[b].state = "pending" /\ job[b].priority = 50
    /\ job[b].id < job[threads[t].job].id

(***************************************************************************)
(* The job queue of a server started with -k (KeepFiles).                  *)
(***************************************************************************)
InitKept ==
  /\ KeepFiles = TRUE
  /\ devices = 0
  /\ tj_mode = SERVER_TRANSFORM_COMMAND
  /\ InitCall

InitKeep ==
  InitJobs /\ request = NoRequest /\ found = NotCalled /\ InitState
    /\ InitClient /\ InitXform /\ InitKept /\ InitMore

SpecKeep == InitKeep /\ [][Next]_vars

\* C28: the janitor removes a job from all-jobs, or frees it, only when
\* KeepFiles is not set, the job has a completion time, and that time is more
\* than 60 seconds ago.
C28_RetentionKeepsJobs ==
  [][\A a \in JobAddrs :
       ((~job[a].freed /\ job'[a].freed)
          \/ (a \in Range(jobs) /\ a \notin Range(jobs')))
         => /\ ~KeepFiles
            /\ job[a].completed # 0
            /\ job[a].completed < now - CleanAge]_vars

(***************************************************************************)
(* The claim about the duplex mode command of pcl_start_page.              *)
(***************************************************************************)
DuplexModesWritten == {out[i].n : i \in {k \in 1..Len(out) : out[k].cmd = "&l#S"}}

\* C30: the front side of a sheet of a duplex job has the duplex mode command,
\* and every duplex mode command written has the value 1 when Tumble is 0, 2
\* when Tumble is not 0, and 0 for a simplex job.
C30_DuplexModeFromTumble ==
  /\ DuplexModesWritten \subseteq {DuplexModeByTumble(ras_duplex, ras_tumble)}
  /\ (x_pc = "write_line" /\ ras_duplex /\ x_page % 2 = 1)
       => DuplexModesWritten # {}

(***************************************************************************)
(* transform.c: serverTransformJob, as the server process runs it (the     *)
(* branch pid == 0 of the fork is the child, another process).             *)
(***************************************************************************)
MaxFd == 8

\* The descriptor numbers the call may get (0, 1 and 2 are taken).
FdRange == 3..MaxFd

\* open() and pipe() return the lowest descriptors that are not open.
LowestFree(open) == CHOOSE n \in FdRange \ open : \A m \in FdRange \ open : n <= m

LeaveOpen(open, so, se) == open

\* if (mystdout[0] >= 0) close(mystdout[0]); ... close(mystderr[1]);
CloseAll(open, so, se) ==
  open \ {fd \in {so[1], so[2], se[1], se[2]} : fd >= 0}

\* transform_failure: close what is open and return (-1)
TransformFailure(so, se) ==
  /\ mystdout' = so
  /\ mystderr' = se
  /\ fds' = CloseAll(fds, so, se)
  /\ tj_status' = 0 - 1
  /\ tj_pc' = "returned"
  /\ UNCHANGED <<KeepFiles, devices, tj_mode, tj_line, job_counters, child>>
  /\ UNCHANGED <<jobVars, findVars, stateVars, clientVars, xformVars, moreVars>>

\* The step of a call that goes on: the descriptors it has, where it is next.
TransformGoesOn(so, se, open, next) ==
  /\ mystdout' = so
  /\ mystderr' = se
  /\ fds' = open
  /\ tj_pc' = next
  /\ UNCHANGED <<KeepFiles, devices, tj_mode, tj_status, tj_line, job_counters>>
  /\ UNCHANGED <<jobVars, findVars, stateVars, clientVars, xformVars, moreVars>>

\* pipe(): both ends are new descriptors.
Pipe(open) ==
  LET r == LowestFree(open)
  IN  <<r, LowestFree(open \cup {r})>>

\* The environment is copied; with too many variables the call fails.
CopyEnvironment ==
  /\ tj_pc = "start"
  /\ \/ TransformFailure(mystdout, mystderr)
     \/ TransformGoesOn(mystdout, mystderr, fds, "stdout") /\ UNCHANGED child

\* The child's stdout: a pipe to the client, the job's output file, or
\* /dev/null.
OpenStdout ==
  /\ tj_pc = "stdout"
  /\ IF tj_mode = SERVER_TRANSFORM_TO_CLIENT
       THEN \/ TransformFailure(mystdout, mystderr)
            \/ LET p == Pipe(fds)
               IN  TransformGoesOn(p, mystderr, fds \cup {p[1], p[2]}, "stderr")
                     /\ UNCHANGED child
       ELSE \/ TransformFailure(<<0 - 1, 0 - 1>>, mystderr)
            \/ LET fd == LowestFree(fds)
               IN  TransformGoesOn(<<0 - 1, fd>>, mystderr, fds \cup {fd}, "stderr")
                     /\ UNCHANGED child

\* if (pipe(mystderr)) goto transform_failure;
PipeStderr ==
  /\ tj_pc = "stderr"
  /\ \/ TransformFailure(mystdout, mystderr)
     \/ LET p == Pipe(fds)
        IN  TransformGoesOn(mystdout, p, fds \cup {p[1], p[2]}, "fork")
              /\ UNCHANGED child

\* fork(): it fails, or the child runs and the server closes the write ends
\* and starts to poll.
Fork ==
  /\ tj_pc = "fork"
  /\ \/ TransformFailure(mystdout, mystderr)
     \/ /\ TransformGoesOn(mystdout, mystderr, fds \ {mystdout[2], mystderr[2]},
                           "poll")
        /\ child' = "running"

\* The lines the child writes to stderr that are no STATE: line.
AttrNames == {"job-impressions-completed", "job-media-sheets-completed", "bogus"}

MaxCount == 2

OtherLines ==
  [prefix : {"ATTR:"}, name : AttrNames, value : 1..MaxCount]
    \cup {[prefix |-> "DEBUG:", name |-> "", value |-> 0]}

\* The STATE: lines the child writes in a run.
RunStateLines ==
  {StatePrefix \o <<" ">> \o MediaLow, StatePrefix \o <<" ", "-">> \o MediaLow}

\* process_attr_message: (void)job; (void)message;
process_attr_message(counters, message) == counters

\* A line the child wrote to stderr, read in the poll loop.  poll() is called
\* with no timeout and so never returns 0: the loop is not left.
ReadLine ==
  /\ tj_pc = "poll"
  /\ child = "running"
  /\ \/ \E line \in RunStateLines : process_state_message(line)
     \/ \E line \in OtherLines :
          /\ tj_line' = line
          /\ job_counters' = IF line.prefix = "ATTR:"
                               THEN process_attr_message(job_counters, line)
                               ELSE job_counters
          /\ UNCHANGED <<KeepFiles, devices, tj_pc, tj_mode, mystdout, mystderr,
                         fds, tj_status, child>>
          /\ UNCHANGED <<jobVars, findVars, stateVars, clientVars, xformVars, moreVars>>

\* The child closes its stdout and stderr and exits.
ChildExits ==
  /\ tj_pc = "poll"
  /\ child = "running"
  /\ child' = "exited"
  /\ UNCHANGED <<KeepFiles, devices, tj_pc, tj_mode, mystdout, mystderr, fds,
                 tj_status, tj_line, job_counters>>
  /\ UNCHANGED <<jobVars, findVars, stateVars, clientVars, xformVars, moreVars>>

\* What poll(polldata, pollcount, -1) returns once the write ends of the
\* pipes are closed: the number of descriptors with an event (POLLHUP, with
\* or without POLLIN), or -1 for an error; with no timeout it is never 0.
PollAtEof == {0 - 1, 1, 2}

\* while (poll(polldata, (nfds_t)pollcount, -1)): the test of the loop with
\* the pipes at end of file.
PollReturns ==
  /\ tj_pc = "poll"
  /\ child = "exited"
  /\ \E r \in PollAtEof :
       tj_pc' = IF r # 0 THEN "revents" ELSE "after_loop"
  /\ UNCHANGED <<KeepFiles, devices, tj_mode, mystdout, mystderr, fds,
                 tj_status, tj_line, job_counters, child>>
  /\ UNCHANGED <<jobVars, findVars, stateVars, clientVars, xformVars, moreVars>>

\* The body of the loop at end of file: POLLIN is not set, or read() returns
\* 0; nothing is done and poll is called again.
HandleEof ==
  /\ tj_pc = "revents"
  /\ tj_pc' = "poll"
  /\ UNCHANGED <<KeepFiles, devices, tj_mode, mystdout, mystderr, fds,
                 tj_status, tj_line, job_counters, child>>
  /\ UNCHANGED <<jobVars, findVars, stateVars, clientVars, xformVars, moreVars>>

NextRun ==
  \/ CopyEnvironment
  \/ OpenStdout
  \/ PipeStderr
  \/ Fork
  \/ ReadLine
  \/ ChildExits
  \/ PollReturns
  \/ HandleEof

\* A call in any of the three modes.
InitModes ==
  /\ KeepFiles = FALSE
  /\ devices = 0
  /\ tj_mode \in {SERVER_TRANSFORM_COMMAND, SERVER_TRANSFORM_TO_CLIENT,
                  SERVER_TRANSFORM_TO_FILE}
  /\ InitCall

InitTransformJob ==
  InitJobs /\ request = NoRequest /\ found = NotCalled /\ InitState
    /\ InitClient /\ InitXform /\ InitModes /\ InitMore

SpecRun == InitTransformJob /\ [][NextRun]_vars

\* The server thread that runs the call is scheduled and the child comes to
\* its end.
SpecRunLive ==
  /\ SpecRun
  /\ WF_vars(CopyEnvironment) /\ WF_vars(OpenStdout) /\ WF_vars(PipeStderr)
  /\ WF_vars(Fork) /\ WF_vars(ChildExits) /\ WF_vars(PollReturns)
  /\ WF_vars(HandleEof)

\* The call returned before a child was made.
FailedCall == tj_pc = "returned" /\ child = "none"

\* C22: a call that fails before a child is made returns a non-zero status
\* to its caller with every descriptor it opened closed again, and with no
\* job, no printer state reason and no counter changed.
C22_FailureClosesDescriptors ==
  FailedCall =>
    /\ tj_status # 0
    /\ fds = {}
    /\ state_reasons = {} /\ lines = <<>>
    /\ \A a \in JobAddrs : job[a] = NoJob
    /\ printer_state = "idle" /\ processing_job = NULL
    /\ job_counters = [impressions |-> 0, sheets |-> 0]

\* fork failed in a call whose two pipes were open.
C22_Witness ==
  /\ FailedCall
  /\ \A i \in 1..2 : mystdout[i] >= 0 /\ mystderr[i] >= 0
  /\ fds = {}

\* C29: after an ATTR: line with job-impressions-completed=N or
\* job-media-sheets-completed=N the job's counter of that name is N.
C29_AttrCountersApplied ==
  tj_line.prefix = "ATTR:" =>
    /\ tj_line.name = "job-impressions-completed"
         => job_counters.impressions = tj_line.value
    /\ tj_line.name = "job-media-sheets-completed"
         => job_counters.sheets = tj_line.value

(***************************************************************************)
(* client.c: serverCreateListeners.                                        *)
(***************************************************************************)
MaxAddrs == 3

\* The addresses a host name may resolve to.
Addresses == 1..MaxAddrs

\* The lists httpAddrGetList may return: NULL (the empty list) or distinct
\* addresses in some order.
AddrLists ==
  {l \in UNION {[1..n -> Addresses] : n \in 0..MaxAddrs} :
     \A i, j \in 1..Len(l) : i # j => l[i] # l[j]}

ListenHosts == {"*", "printer.local"}

LocalHostname == "local"

ListenPort == 8631

\* The argument of httpAddrListen as the loop would pass the current entry.
CurrentAddr(list, i) == list[i]

\* httpAddrListen(&(addrlist->addr), port): the head of the list.
ListenAddr(list, i) == list[1]

\* httpAddrGetList: NULL makes the call return 0; "*" is replaced by the
\* local host name; addr = addrlist.
ResolveListen ==
  /\ lis_pc = "start"
  /\ IF addrlist = <<>>
       THEN lis_ret' = 0 /\ lis_pc' = "returned" /\ UNCHANGED <<lis_host, addr>>
       ELSE /\ lis_host' = IF lis_host = "*" THEN LocalHostname ELSE lis_host
            /\ addr' = 1
            /\ lis_pc' = "loop"
            /\ UNCHANGED lis_ret
  /\ UNCHANGED <<addrlist, bindable, Listeners>>
  /\ UNCHANGED <<jobVars, findVars, stateVars, clientVars, xformVars, runVars,
                 filenameVars, using>>

\* One turn of for (addr = addrlist; addr; addr = addr->next): the socket is
\* not created (continue), or a listener with it is added to Listeners.  An
\* address already listened on may or may not be bound again (SO_REUSEPORT).
ListenStep ==
  /\ lis_pc = "loop"
  /\ addr <= Len(addrlist)
  /\ LET a == ListenAddr(addrlist, addr)
     IN  \/ /\ a \in bindable
            /\ Listeners' = Append(Listeners,
                                   [fd |-> 3 + Len(Listeners), addr |-> a,
                                    host |-> lis_host, port |-> ListenPort])
         \/ /\ a \notin bindable \/ \E i \in 1..Len(Listeners) : Listeners[i].addr = a
            /\ UNCHANGED Listeners
  /\ addr' = addr + 1
  /\ UNCHANGED <<lis_host, addrlist, bindable, lis_pc, lis_ret>>
  /\ UNCHANGED <<jobVars, findVars, stateVars, clientVars, xformVars, runVars,
                 filenameVars, using>>

\* httpAddrFreeList(addrlist); return (1);
ListenReturn ==
  /\ lis_pc = "loop"
  /\ addr > Len(addrlist)
  /\ lis_ret' = 1
  /\ lis_pc' = "returned"
  /\ UNCHANGED <<lis_host, addrlist, bindable, addr, Listeners>>
  /\ UNCHANGED <<jobVars, findVars, stateVars, clientVars, xformVars, runVars,
                 filenameVars, using>>

NextListen ==
  \/ ResolveListen
  \/ ListenStep
  \/ ListenReturn

\* One call for a Listen address, with what the resolver returns for it and
\* the addresses of the machine.
InitListenCall ==
  /\ lis_host \in ListenHosts
  /\ addrlist \in AddrLists
  /\ bindable \in SUBSET Addresses
  /\ addr = NULL
  /\ lis_pc = "start"
  /\ lis_ret = 0
  /\ Listeners = <<>>

InitListeners ==
  InitJobs /\ request = NoRequest /\ found = NotCalled /\ InitState
    /\ InitClient /\ InitXform /\ InitServer /\ InitListenCall /\ InitFilename
    /\ using = NULL

SpecListen == InitListeners /\ [][NextListen]_vars

\* C31: when the call has returned for a host whose addresses can all be
\* bound, there is one listener per resolved address, the i-th listener
\* bound to the i-th address.
C31_OneListenerPerAddress ==
  (lis_pc = "returned" /\ \A i \in 1..Len(addrlist) : addrlist[i] \in bindable)
    => /\ Len(Listeners) = Len(addrlist)
       /\ \A i \in 1..Len(addrlist) : Listeners[i].addr = addrlist[i]

(***************************************************************************)
(* The printer's write lock and the connection threads.                    *)
(***************************************************************************)
\* A connection thread that is in none of the job functions: it is reading
\* the next request from its socket or writing a response to it.
OnSocket(c) == pc[c] = "idle"

\* C32: a connection thread that has come back from serverCreateJob,
\* serverCheckJobs or serverCleanJobs, on any path, and reads or writes its
\* socket does not hold the printer's write lock.
C32_NoLockAcrossNetworkIO ==
  \A c \in Clients : OnSocket(c) => rwlock # c

\* C36: a call of serverCreateJob that allocates no job returns with the
\* write lock released and with next_job_id, jobs and active_jobs unchanged.
C36_FailedCreateReleasesLock ==
  [][\A c \in Clients, op \in RequestOps, prio \in RequestPriorities :
       (serverCreateJob(c, op, prio) /\ njobs' = njobs)
         => /\ rwlock' = NULL
            /\ next_job_id' = next_job_id
            /\ jobs' = jobs
            /\ active_jobs' = active_jobs]_vars

(***************************************************************************)
(* The responses of one call of serverProcessHTTP.                         *)
(***************************************************************************)
\* The places of the final (not 1xx) responses in the log of a call.
FinalResponses(log) ==
  {i \in 1..Len(log) :
     log[i].call = "serverRespondHTTP" /\ log[i].arg >= HTTP_STATUS_OK}

\* C33: a call of serverProcessHTTP writes at most one final response, and
\* a 417 or 501 response is the last thing the call does for the request.
C33_OneFinalResponse ==
  /\ Cardinality(FinalResponses(http_log)) <= 1
  /\ \A i \in 1..Len(http_log) :
       http_log[i] \in {Respond(HTTP_STATUS_EXPECTATION_FAILED),
                        Respond(HTTP_STATUS_NOT_IMPLEMENTED)}
         => i = Len(http_log)

(***************************************************************************)
(* job.c: serverCreateJobFilename.  Strings are sequences of characters.   *)
(***************************************************************************)
MaxNameLen == 2

\* The characters of the job names tried.
NameChars == {"A", "2", "-", "/"}

\* isalnum(c & 255)
isalnum(c) == c \in {"A", "2"}

\* tolower(c & 255)
tolower(c) == IF c = "A" THEN "a" ELSE c

\* char name[256]
NameSize == 256

KeepChar(c) == c

\* if (isalnum(*job_name & 255) || *job_name == '-') tolower(...) else '_'
SafeChar(c) == IF isalnum(c) \/ c = "-" THEN tolower(c) ELSE "_"

Untitled == <<"u", "n", "t", "i", "t", "l", "e", "d">>

\* The "safe" name: the job-name value or "untitled", character by character,
\* as far as name[] has room.
SafeName(named, job_name) ==
  LET s == IF named THEN job_name ELSE Untitled
      n == IF Len(s) < NameSize - 1 THEN Len(s) ELSE NameSize - 1
  IN  [i \in 1..n |-> SafeChar(s[i])]

\* The document formats tried, one of them in upper case.
Formats ==
  {"image/jpeg", "IMAGE/JPEG", "image/png", "image/pwg-raster", "image/urf",
   "application/pdf", "application/postscript", "application/octet-stream"}

\* What strcasecmp folds a format to.
FoldCase(f) == IF f = "IMAGE/JPEG" THEN "image/jpeg" ELSE f

strcasecmp(a, b) == IF FoldCase(a) = FoldCase(b) THEN 0 ELSE 1

\* Figure out the extension...
Extension(format) ==
  IF strcasecmp(format, "image/jpeg") = 0 THEN <<"j", "p", "g">>
  ELSE IF strcasecmp(format, "image/png") = 0 THEN <<"p", "n", "g">>
  ELSE IF strcasecmp(format, "image/pwg-raster") = 0 THEN <<"r", "a", "s">>
  ELSE IF strcasecmp(format, "image/urf") = 0 THEN <<"u", "r", "f">>
  ELSE IF strcasecmp(format, "application/pdf") = 0 THEN <<"p", "d", "f">>
  ELSE IF strcasecmp(format, "application/postscript") = 0 THEN <<"p", "s">>
  ELSE <<"p", "r", "n">>

DigitChars == <<"0", "1", "2", "3", "4", "5", "6", "7", "8", "9">>

\* %d of a positive number
RECURSIVE Decimal(_)
Decimal(n) ==
  IF n < 10 THEN <<DigitChars[n + 1]>>
  ELSE Append(Decimal(n \div 10), DigitChars[(n % 10) + 1])

\* printer->directory
SpoolDirectory == <<"/", "s">>

\* snprintf(fname, fnamesize, "%s/%d-%s.%s", printer->directory, job->id,
\* name, ext), the buffer being large enough.
JobFilename(id, named, job_name, job_format, format) ==
  SpoolDirectory \o <<"/">> \o Decimal(id) \o <<"-">>
    \o SafeName(named, job_name) \o <<".">>
    \o Extension(IF format = "" THEN job_format ELSE format)

JobNames == UNION {[1..n -> NameChars] : n \in 0..MaxNameLen}

\* The calls tried: a job with or without job-name, the format given or
\* NULL (the job's format is used then).
FilenameCalls ==
  {[id |-> i, job_name |-> n, named |-> TRUE, job_format |-> jf, format |-> f] :
     i \in JobIds, n \in JobNames, jf \in Formats, f \in {"", "IMAGE/JPEG"}}
  \cup
  {[id |-> i, job_name |-> <<>>, named |-> FALSE, job_format |-> jf, format |-> ""] :
     i \in JobIds, jf \in Formats}

serverCreateJobFilename(call) ==
  /\ fn_made[call.id] = <<>>
  /\ fn_call' = call
  /\ fname' = JobFilename(call.id, call.named, call.job_name, call.job_format,
                          call.format)
  /\ fn_made' = [fn_made EXCEPT ![call.id] = fname']
  /\ UNCHANGED <<jobVars, findVars, stateVars, clientVars, xformVars, runVars,
                 listenVars, using>>

NextFilename == \E call \in FilenameCalls : serverCreateJobFilename(call)

InitFilenames ==
  InitJobs /\ request = NoRequest /\ found = NotCalled /\ InitState
    /\ InitClient /\ InitXform /\ InitServer /\ InitListen /\ InitFilename
    /\ using = NULL

SpecFilename == InitFilenames /\ [][NextFilename]_vars

\* The claimed name of a character: letters and digits in lower case, '-'
\* as it is, '_' for everything else.
ClaimedChar(c) ==
  CASE c = "A" -> "a"
    [] c \in {"2", "-"} -> c
    [] OTHER -> "_"

ClaimedExtension(f) ==
  CASE f = "application/pdf" -> <<"p", "d", "f">>
    [] f = "image/jpeg" -> <<"j", "p", "g">>
    [] f = "image/png" -> <<"p", "n", "g">>
    [] f = "image/pwg-raster" -> <<"r", "a", "s">>
    [] f = "image/urf" -> <<"u", "r", "f">>
    [] f = "application/postscript" -> <<"p", "s">>
    [] OTHER -> <<"p", "r", "n">>

ClaimedFilename(call) ==
  LET s == IF call.named THEN call.job_name ELSE Untitled
      f == IF call.format = "" THEN call.job_format ELSE call.format
  IN  SpoolDirectory \o <<"/">> \o Decimal(call.id) \o <<"-">>
        \o [i \in 1..Len(s) |-> ClaimedChar(s[i])] \o <<".">>
        \o ClaimedExtension(FoldCase(f))

\* C34: the file name written is {directory}/{job-id}-{name}.{ext} with the
\* name sanitized and the extension chosen by the format as claimed, and the
\* file names made for two jobs differ.
C34_SpoolFilename ==
  /\ fn_call # NoFilenameCall => fname = ClaimedFilename(fn_call)
  /\ \A i, j \in JobIds : (i # j /\ fn_made[i] # <<>>) => fn_made[i] # fn_made[j]

\* Job 1 named "2-" and job 12 with an empty name: "1-2-.pdf" and "12-.pdf".
C34_Witness ==
  /\ fn_made[1] = SpoolDirectory \o <<"/", "1", "-", "2", "-", ".", "p", "d", "f">>
  /\ fn_made[12] = SpoolDirectory \o <<"/", "1", "2", "-", ".", "p", "d", "f">>

(***************************************************************************)
(* The serverProcessJob threads of a job.                                  *)
(***************************************************************************)
\* C35: no two serverProcessJob threads were created for the same job.
C35_OneTaskPerJob ==
  \A s, t \in 1..Len(threads) : s # t => threads[s].job # threads[t].job

(***************************************************************************)
(* The end of serverTransformJob.                                          *)
(***************************************************************************)
\* C37: once the child has closed its stdout and stderr and exited, the call
\* returns.
C37_TransformReturnsAfterChildExit ==
  (child = "exited") ~> (tj_pc = "returned")

(***************************************************************************)
(* A request handler that looks a job up and works on it, and the janitor. *)
(***************************************************************************)
\* job = serverFindJob(client, id): the lookup under the read lock; the lock
\* is released before the job is returned.
LookupJob(id) ==
  /\ using = NULL
  /\ rwlock = NULL
  /\ cupsArrayFind(jobs, job, [id |-> id]) # NULL
  /\ using' = cupsArrayFind(jobs, job, [id |-> id])
  /\ UNCHANGED <<jobVars, findVars, stateVars, clientVars, xformVars, runVars,
                 listenVars, filenameVars>>

\* The handler has read or changed the job and sent its response.
UseJob ==
  /\ using # NULL
  /\ using' = NULL
  /\ UNCHANGED <<jobVars, findVars, stateVars, clientVars, xformVars, runVars,
                 listenVars, filenameVars>>

\* The queue while a handler works on a job: jobs are created, queued and
\* aborted, the janitor sweeps; the serverProcessJob threads created have not
\* run yet.
NextUse ==
  \/ \E c \in Clients, op \in RequestOps, prio \in RequestPriorities :
       serverCreateJob(c, op, prio)
  \/ \E a \in JobAddrs : SubmitDocument(a)
  \/ \E c \in Clients : CheckJobsTest(c)
  \/ \E c \in Clients : CheckJobsScan(c)
  \/ serverCleanJobs
  \/ Tick
  \/ \E id \in FirstJobId..(FirstJobId + MaxJobs - 1) : LookupJob(id)
  \/ UseJob

SpecUse == Init /\ [][NextUse]_vars

\* C38: the job a handler got from serverFindJob and is still working on is
\* not freed.
C38_FoundJobNotFreed == using # NULL => ~job[using].freed

SheetsPrinted(copies, pages, duplex) ==
  IF duplex THEN copies * ((pages + 1) \div 2) ELSE copies * pages

\* C40: when the job has ended, media_sheets, the value of the last
\* job-media-sheets-completed line, is the number of sheets printed.
C40_MediaSheetsCompleted ==
  (x_pc = "returned" /\ started)
    => media_sheets = SheetsPrinted(ras_copies, x_opts.pages, ras_duplex)

====
